---------------------------- MODULE Spec2Model ----------------------------
(***************************************************************************)
(* The state-management core of the loomchain node: the versioned IAVL     *)
(* store (store.IAVLStore) and the ABCI block lifecycle                    *)
(* (loomchain.Application) that drives it.                                 *)
(***************************************************************************)
EXTENDS Integers, Sequences, FiniteSets, TLC

(***************************************************************************)
(* Bounds of the model.                                                    *)
(***************************************************************************)
\* SaveVersion is not called once the tree has reached this version.
MaxVersion == 3
\* NewIAVLStore is called with a requested maxVersions in 0..MaxRequested.
MaxRequested == 2
\* The consensus engine runs blocks up to this height.
MaxHeight == 3
\* The consensus engine delivers at most this many transactions per block.
MaxTxsPerBlock == 2
\* The largest number of writes staged in one transaction driven directly.
MaxBuffer == 2
\* The longest prefix Range is called with.
MaxPrefixLen == 2
\* An account of the transfer gateway starts at most this many withdrawals.
MaxWithdrawals == 2
\* The Mainnet blocks the gateway's oracles report events from.
MaxEthBlock == 2
\* The cache-tunable store is opened with a disk-write frequency and a
\* version-retention frequency in 0..MaxFrequency.
MaxFrequency == 2

\* Keys and values are opaque byte strings; two of each are enough to tell
\* writes apart.  Absent stands for "no value stored under the key".
Keys == {"a", "b"}
Values == {"x", "y"}
Absent == "absent"
EmptyMapping == [k \in Keys |-> Absent]

VARIABLES
    tree,               \* IAVLStore.tree: [root, versions, version]
    maxVersions,        \* IAVLStore.maxVersions
    lastBlockHeader,    \* Application.lastBlockHeader
    curBlockHeader,     \* Application.curBlockHeader
    curBlockHash,       \* Application.curBlockHash
    childTxRefs,        \* Application.childTxRefs
    features,           \* the feature flags state.FeatureEnabled reports
    currentReceipt,     \* the receipt handler's current receipt
    committedReceipts,  \* the receipts committed for the block in progress
    pendingEvents,      \* the event handler's uncommitted events
    committedEvents,    \* the events committed for the block in progress
    status,             \* "running", or "panicked" once the node has stopped
    phase,              \* where the consensus engine is in its call protocol
    delivered,          \* the result codes of the DeliverTx calls of the
                        \* block in progress, in order
    deliverCall,        \* the DeliverTx call in progress: [pc, tx]
    checkCall,          \* the CheckTx call in progress: [pc, tx, view]
    commitCall,         \* the Commit call in progress: [pc, hash]
    readCall,           \* the ReadOnlyState call in progress: what it has
                        \* read so far, [snapshot, Block]
    atomicTx,           \* a transaction opened over the store on its own:
                        \* [state, buffer, opened]
    config,             \* Application.config, the cached on-chain
                        \* configuration, beside the one in the store:
                        \* [cached, stored]
    emit,               \* the goroutines Commit has started to emit the
                        \* block events and what they have emitted so
                        \* far: [started, blocks]
    diffStore,          \* the cache-tunable store variant, beside the
                        \* baseline store in tree
    gateway,            \* what the transfer gateway contract keeps in its
                        \* store: [accounts, TokenWithdrawers, LastEthBlock]
    resp                \* what the last call returned to its caller

appVars == <<lastBlockHeader, curBlockHeader, curBlockHash, childTxRefs,
             features, currentReceipt, committedReceipts, pendingEvents,
             committedEvents, status, phase, delivered, deliverCall,
             checkCall>>
\* The variables that only the stepwise Commit and ReadOnlyState and the
\* transaction opened on its own change.
callVars == <<commitCall, readCall, atomicTx>>
vars == <<tree, maxVersions, lastBlockHeader, curBlockHeader, curBlockHash,
          childTxRefs, features, currentReceipt, committedReceipts,
          pendingEvents, committedEvents, status, phase, delivered,
          deliverCall, checkCall, commitCall, readCall, atomicTx, config,
          emit, diffStore, gateway, resp>>

(***************************************************************************)
(* iavl.VersionedTree, as IAVLStore uses it.  root is the working set that *)
(* Set and Remove change, versions the saved immutable versions, version   *)
(* the number of the latest saved one.                                     *)
(***************************************************************************)
NilHash == <<>>

\* The digest of a saved version: a function of the key/value contents only.
\* It is written as the set of the (key, value) leaves it covers.
HashOf(m) == <<"root", {<<k, m[k]>> : k \in {x \in Keys : m[x] # Absent}}>>

NewVersionedTree == [root |-> EmptyMapping, versions |-> <<>>, version |-> 0]

VersionExists(t, v) == v \in DOMAIN t.versions

Get(t, key) == t.root[key]

\* A Has that looks the key up in the latest saved version.
HasInSavedVersion(t, key) ==
    t.version > 0 /\ t.versions[t.version][key] # Absent

Has(t, key) == t.root[key] # Absent

\* A Set that also writes into the latest saved version.
SetWritesThrough(t, key, val) ==
    [t EXCEPT !.root = [@ EXCEPT ![key] = val],
              !.versions = [v \in DOMAIN @ |->
                               IF v = t.version
                               THEN [@[v] EXCEPT ![key] = val]
                               ELSE @[v]]]

Set(t, key, val) == [t EXCEPT !.root = [@ EXCEPT ![key] = val]]

Delete(t, key) == [t EXCEPT !.root = [@ EXCEPT ![key] = Absent]]

\* A Hash() that digests the working set.
HashOfWorkingSet(t) == HashOf(t.root)

Hash(t) == IF t.version > 0 THEN HashOf(t.versions[t.version]) ELSE NilHash

Version(t) == t.version

\* tree.SaveVersion(): the working set becomes version t.version + 1.
TreeSaveVersion(t) ==
    LET version == t.version + 1
        saved == [v \in DOMAIN t.versions \cup {version} |->
                     IF v = version THEN t.root ELSE t.versions[v]]
        nt == [t EXCEPT !.versions = saved, !.version = version]
    IN  [tree |-> nt, hash |-> Hash(nt), version |-> version]

\* tree.DeleteVersion(v): the saved version v is dropped.
TreeDeleteVersion(t, v) ==
    [t EXCEPT !.versions = [w \in DOMAIN t.versions \ {v} |-> t.versions[w]]]

(***************************************************************************)
(* store.IAVLStore                                                         *)
(***************************************************************************)
\* SaveVersion returning the number it read before the save.
SaveVersionStaleNumber(t, engineFails) ==
    LET oldVersion == t.version
        r == TreeSaveVersion(t)
    IN  IF engineFails
        THEN [tree |-> t, hash |-> NilHash, version |-> 0,
              err |-> <<"failed to save tree version", oldVersion + 1>>]
        ELSE [tree |-> r.tree, hash |-> r.hash, version |-> oldVersion,
              err |-> <<>>]

\* SaveVersion that saves nothing when the working set equals the latest
\* saved version.
SaveVersionSkipsUnchanged(t, engineFails) ==
    LET r == TreeSaveVersion(t)
    IN  IF engineFails
        THEN [tree |-> t, hash |-> NilHash, version |-> 0,
              err |-> <<"failed to save tree version", t.version + 1>>]
        ELSE IF t.version > 0 /\ t.root = t.versions[t.version]
             THEN [tree |-> t, hash |-> Hash(t), version |-> t.version,
                   err |-> <<>>]
             ELSE [tree |-> r.tree, hash |-> r.hash, version |-> r.version,
                   err |-> <<>>]

\* SaveVersion that reports the failure of a save the tree has already
\* counted.
SaveVersionCountsFailedSave(t, engineFails) ==
    LET oldVersion == Version(t)
        r == TreeSaveVersion(t)
    IN  IF engineFails
        THEN [tree |-> r.tree, hash |-> NilHash, version |-> 0,
              err |-> <<"failed to save tree version", oldVersion + 1>>]
        ELSE [tree |-> r.tree, hash |-> r.hash, version |-> r.version,
              err |-> <<>>]

\* engineFails: the backing engine cannot persist the new version.
SaveVersion(t, engineFails) ==
    LET oldVersion == Version(t)
        r == TreeSaveVersion(t)
    IN  IF engineFails
        THEN [tree |-> t, hash |-> NilHash, version |-> 0,
              err |-> <<"failed to save tree version", oldVersion + 1>>]
        ELSE [tree |-> r.tree, hash |-> r.hash, version |-> r.version,
              err |-> <<>>]

\* Prune with the retention window counted one version short.
PruneOffByOne(t, maxV, engineFails) ==
    LET oldVer == t.version - maxV + 1
    IN  IF oldVer < 1 \/ ~VersionExists(t, oldVer) \/ engineFails
        THEN [tree |-> t, err |-> <<>>]
        ELSE [tree |-> TreeDeleteVersion(t, oldVer), err |-> <<>>]

\* Prune that reloads the latest saved version after deleting, losing the
\* unsaved working set.
PruneReloadsTree(t, maxV, engineFails) ==
    LET oldVer == t.version - maxV
    IN  IF oldVer < 1 \/ ~VersionExists(t, oldVer)
        THEN [tree |-> t, err |-> <<>>]
        ELSE IF engineFails
             THEN [tree |-> t,
                   err |-> <<"failed to delete tree version", oldVer>>]
             ELSE [tree |-> [TreeDeleteVersion(t, oldVer)
                                EXCEPT !.root = t.versions[t.version]],
                   err |-> <<>>]

\* engineFails: the backing engine cannot delete the version.
Prune(t, maxV, engineFails) ==
    LET latestVer == Version(t)
        oldVer == latestVer - maxV
    IN  IF oldVer < 1
        THEN [tree |-> t, err |-> <<>>]
        ELSE IF VersionExists(t, oldVer)
             THEN IF engineFails
                  THEN [tree |-> t,
                        err |-> <<"failed to delete tree version", oldVer>>]
                  ELSE [tree |-> TreeDeleteVersion(t, oldVer), err |-> <<>>]
             ELSE [tree |-> t, err |-> <<>>]

\* NewIAVLStore without the clamp of maxVersions.
NewIAVLStoreNoClamp(requested) ==
    [tree |-> NewVersionedTree, maxVersions |-> requested]

NewIAVLStore(requested) ==
    [tree |-> NewVersionedTree,
     maxVersions |-> IF requested < 2 THEN 2 ELSE requested]

(***************************************************************************)
(* store.Snapshot, the read-only handle Store.GetSnapshot() returns: it is *)
(* pinned to the latest saved version and reads that version's data, which *)
(* it shares with the store.                                               *)
(***************************************************************************)
GetSnapshot(t) == [version |-> Version(t)]

\* No snapshot.
NoSnapshot == [version |-> -1]

\* What a read through the snapshot returns for every key: nothing before
\* the first save, and <<>> (unreadable) once its version has been pruned.
SnapshotView(t, snapshot) ==
    IF snapshot.version = 0
    THEN EmptyMapping
    ELSE IF VersionExists(t, snapshot.version)
         THEN t.versions[snapshot.version]
         ELSE <<>>

(***************************************************************************)
(* The response of a call, as its caller sees it.                          *)
(***************************************************************************)
\* op: the call; err: the error it returned; version, hash: the version and
\* hash it returned; code: the ABCI result code; arg: the height or the
\* transaction it was called with (for Commit, the result codes of the
\* DeliverTx calls of the block it committed); view: the store contents it handed to the transaction
\* handler; calls: the calls it made on its collaborators, in order;
\* updates: the validator updates EndBlock returned; refs: the records
\* Commit handed to EvmAuxStore.SaveChildTxRefs.
\* The nil *cctypes.Config, and the mark of a call that handed no
\* configuration to anything.
NilConfig == -1
NoConfig == -2

Resp(op, err, version, hash) ==
    [op |-> op, err |-> err, version |-> version, hash |-> hash,
     code |-> 0, arg |-> 0, view |-> <<>>, calls |-> <<>>, updates |-> <<>>,
     refs |-> <<>>, config |-> NoConfig, emitted |-> <<>>]

NoResp == Resp("none", <<>>, 0, NilHash)

\* The application as NewApplication leaves it: a.config is nil, and the
\* store holds the first configuration.
NoCachedConfig == [cached |-> NilConfig, stored |-> 0]

\* No Commit has started a goroutine yet and no block event has been
\* emitted.
NoEmission == [started |-> {}, blocks |-> <<>>]

\* No cache-tunable store has been opened.
NoDiffStore == [opened |-> FALSE]

\* The store of a gateway contract nothing has been written to: loadState
\* and loadAccount find nothing and return zero values.
NoGateway == [accounts |-> <<>>, TokenWithdrawers |-> <<>>, LastEthBlock |-> 0]

\* A call of a handler on one of its collaborators.
Called(on, call) == <<on, call>>

\* An error a handler wrote to the log and went on.
Logged(message) == <<"log", message>>

(***************************************************************************)
(* IAVLStore.Range over keys that are byte strings.  A []byte is a record: *)
(* nil says whether it is the nil slice, bytes are its bytes (none for     *)
(* nil and for a zero-length slice).                                       *)
(***************************************************************************)
Slice(bytes) == [nil |-> FALSE, bytes |-> bytes]
NilSlice == [nil |-> TRUE, bytes |-> <<>>]

\* The bytes prefixes are made of, and the keys stored: a = 97, b = 98,
\* c = 99.
RangeBytes == {97, 98, 99, 255}
RangeKeys ==
    {<<97, 98>>, <<97, 98, 99>>, <<97, 99>>, <<98>>, <<97, 255>>, <<255>>,
     <<255, 255>>}

\* bytes.Compare
RECURSIVE Compare(_, _)
Compare(a, b) ==
    IF a = <<>>
    THEN IF b = <<>> THEN 0 ELSE -1
    ELSE IF b = <<>>
         THEN 1
         ELSE IF Head(a) < Head(b)
              THEN -1
              ELSE IF Head(a) > Head(b)
                   THEN 1
                   ELSE Compare(Tail(a), Tail(b))

\* What prefixRangeEnd does: it returns end, or panics (index out of range).
Returned(end) == [panic |-> FALSE, end |-> end]
IndexOutOfRange == [panic |-> TRUE, end |-> NilSlice]

\* The loop of prefixRangeEnd over end, a copy of the prefix.
RECURSIVE prefixRangeEndLoop(_)
prefixRangeEndLoop(end) ==
    IF Len(end) = 0
    THEN IndexOutOfRange                       \* end[len(end)-1]
    ELSE IF end[Len(end)] # 255
         THEN Returned(Slice([end EXCEPT ![Len(end)] = (@ + 1) % 256]))
         ELSE IF Len(end) = 1
              THEN Returned(NilSlice)
              ELSE prefixRangeEndLoop(SubSeq(end, 1, Len(end) - 1))

\* A prefixRangeEnd that increments the last byte without trimming.
prefixRangeEndNoTrim(prefix) ==
    IF prefix.nil
    THEN Returned(NilSlice)
    ELSE IF Len(prefix.bytes) = 0
         THEN IndexOutOfRange
         ELSE Returned(Slice([prefix.bytes EXCEPT
                                 ![Len(prefix.bytes)] = (@ + 1) % 256]))

prefixRangeEnd(prefix) ==
    IF prefix.nil THEN Returned(NilSlice) ELSE prefixRangeEndLoop(prefix.bytes)

RangeEntry(key, value) == [Key |-> key, Value |-> value]

\* The keys of S in ascending order.
RECURSIVE Ascending(_)
Ascending(S) ==
    IF S = {}
    THEN <<>>
    ELSE LET first == CHOOSE k \in S : \A j \in S : Compare(k, j) <= 0
         IN  <<first>> \o Ascending(S \ {first})

\* tree.GetRangeWithProof(start, end, 0): the keys k of the working tree with
\* start <= k < end in ascending order, a nil start or end being no bound.
\* failsAfter = -1: the engine answers in full; failsAfter = n >= 0: it
\* reports an error after having delivered at most n keys.
TreeGetRangeWithProof(t, start, end, failsAfter) ==
    LET inRange == {k \in DOMAIN t.root :
                       /\ t.root[k] # Absent
                       /\ start.nil \/ Compare(start.bytes, k) <= 0
                       /\ end.nil \/ Compare(k, end.bytes) < 0}
        keys == Ascending(inRange)
        n == IF failsAfter = -1 \/ failsAfter > Len(keys)
             THEN Len(keys) ELSE failsAfter
    IN  [keys |-> SubSeq(keys, 1, n),
         values |-> [i \in 1..n |-> t.root[keys[i]]],
         err |-> IF failsAfter = -1 THEN <<>> ELSE <<"range-error">>]

\* A Range that returns nothing when the engine reported an error.
RangeDropsOnError(t, prefix, failsAfter) ==
    LET end == prefixRangeEnd(prefix)
        r == TreeGetRangeWithProof(t, prefix, end.end, failsAfter)
    IN  IF end.panic
        THEN [panic |-> TRUE, ret |-> <<>>, log |-> <<>>]
        ELSE [panic |-> FALSE,
              ret |-> IF r.err # <<>>
                      THEN <<>>
                      ELSE [i \in 1..Len(r.keys) |->
                               RangeEntry(r.keys[i], r.values[i])],
              log |-> IF r.err # <<>> THEN <<Logged("range-error")>>
                                      ELSE <<>>]

Range(t, prefix, failsAfter) ==
    LET end == prefixRangeEnd(prefix)
        r == TreeGetRangeWithProof(t, prefix, end.end, failsAfter)
    IN  IF end.panic
        THEN [panic |-> TRUE, ret |-> <<>>, log |-> <<>>]
        ELSE [panic |-> FALSE,
              ret |-> [i \in 1..Len(r.keys) |->
                          RangeEntry(r.keys[i], r.values[i])],
              log |-> IF r.err # <<>> THEN <<Logged("range-error")>>
                                      ELSE <<>>]

(***************************************************************************)
(* store.KVStoreTx, the transaction store.WrapAtomic(a.Store).BeginTx()    *)
(* opens: writes are staged in a buffer; Commit applies the buffer to the  *)
(* parent store in one pass, Rollback discards it.                         *)
(***************************************************************************)
SetOp(key, val) == [action |-> "set", key |-> key, val |-> val]
DeleteOp(key) == [action |-> "delete", key |-> key, val |-> Absent]

BeginTx == [buffer |-> <<>>]

TxSet(tx, key, val) == [tx EXCEPT !.buffer = Append(@, SetOp(key, val))]

TxDelete(tx, key) == [tx EXCEPT !.buffer = Append(@, DeleteOp(key))]

RECURSIVE ApplyBuffer(_, _)
ApplyBuffer(buffer, t) ==
    IF buffer = <<>>
    THEN t
    ELSE LET o == Head(buffer)
             nt == IF o.action = "set" THEN Set(t, o.key, o.val)
                                       ELSE Delete(t, o.key)
         IN  ApplyBuffer(Tail(buffer), nt)

\* The parent store after tx.Commit().
TxCommit(tx, t) == ApplyBuffer(tx.buffer, t)

TxRollback(tx) == [tx EXCEPT !.buffer = <<>>]

\* No transaction is open.
NoTx == [state |-> "none", buffer |-> <<>>, opened |-> <<>>]

\* Reads that go to the parent without consulting the buffer.
TxViewOfParent(tx, t) == t.root

\* What a read through the transaction returns for every key: the staged
\* value when the key is staged, the parent's value otherwise.
TxView(tx, t) == TxCommit(tx, t).root

TxGet(tx, t, key) == TxView(tx, t)[key]

TxHas(tx, t, key) == TxView(tx, t)[key] # Absent

\* The transaction with a list of writes staged through it.
RECURSIVE Stage(_, _)
Stage(tx, writes) ==
    IF writes = <<>>
    THEN tx
    ELSE LET o == Head(writes)
         IN  Stage(IF o.action = "set" THEN TxSet(tx, o.key, o.val)
                                       ELSE TxDelete(tx, o.key),
                   Tail(writes))

\* The calls a handler makes on the transaction it holds in the variable
\* name: BeginTx, then the calls of ends ("Commit", "Rollback") in order.
Transaction(name, ends) ==
    <<Called(name, "BeginTx")>>
    \o [i \in 1..Len(ends) |-> Called(name, ends[i])]

(***************************************************************************)
(* The collaborators of the Application.  What a callback writes, and      *)
(* whether it fails, is an input of the call.                              *)
(***************************************************************************)
NoReceipt == "none"
CallEVM == "CallEVM"
CallPlugin == "CallPlugin"
EvmTxReceiptsVersion3 == "receipts:v3"
EvmTxReceiptsVersion3_1 == "receipts:v3.1"
FeatureSets == {{}, {EvmTxReceiptsVersion3},
                {EvmTxReceiptsVersion3, EvmTxReceiptsVersion3_1}}

\* A transaction: hash is ttypes.Tx(txBytes).Hash(); writes is what the
\* handler stages through the state it is given; fails says whether the
\* handler returns an error; receipt is the TxHash of the receipt the handler
\* leaves as the current receipt (NoReceipt when it leaves none); info is the
\* Info field of the handler's result.
Tx(hash, writes, fails, receipt, info) ==
    [hash |-> hash, writes |-> writes, fails |-> fails, receipt |-> receipt,
     info |-> info]

Txs ==
    { Tx("t1", <<SetOp("a", "x")>>, FALSE, "e1", CallEVM),
      Tx("t2", <<DeleteOp("a"), SetOp("b", "x")>>, FALSE, "t2", CallPlugin),
      Tx("t3", <<SetOp("a", "x"), DeleteOp("b")>>, TRUE, "e3", CallEVM) }

GenesisWrites == <<SetOp("a", "x")>>
UpkeepWrites == <<DeleteOp("b")>>
ValidatorWrites == <<SetOp("b", "x")>>
ChainConfigWrites == <<SetOp("a", "x")>>
EndBlockWrites == <<DeleteOp("b")>>

\* a.TxHandler.ProcessTx(state, txBytes, isCheckTx): the handler stages its
\* writes through the state's store, leaves a current receipt and posts
\* events, and returns a result or an error.
ProcessTx(storeTx, tx, isCheckTx) ==
    [storeTx |-> Stage(storeTx, tx.writes),
     receipt |-> tx.receipt,
     events |-> {tx.hash},
     info |-> tx.info,
     err |-> tx.fails]

Header(h) == [Height |-> h]
BlockHash(h) == <<"block", h>>
ChildTxRef(parent, child) == [ParentTxHash |-> parent, ChildTxHash |-> child]

FeatureEnabled(f) == f \in features

(***************************************************************************)
(* loomchain.Application                                                   *)
(***************************************************************************)
\* An application that takes the version of its store for its height.
heightOfLastBlock == Version(tree)

height == Version(tree) + 1

\* A call of DeliverTx or CheckTx: pc is "idle" when none is in progress,
\* "begun" once its transaction is open and "processed" once the handler has
\* returned; tx is the hash of its transaction; view is the store contents
\* the handler was given; applied is the number of staged writes that
\* storeTx.Commit() has applied to the store so far.
Call(pc, tx, view) == [pc |-> pc, tx |-> tx, view |-> view, applied |-> 0]
NoCall == Call("idle", "", <<>>)

\* A Commit call: pc is "idle" when none is in progress and "saved" once
\* SaveVersion has returned; hash is the appHash it returned.
NoCommit == [pc |-> "idle", hash |-> NilHash]

\* A ReadOnlyState call: the snapshot and the block header it has read so
\* far, NoSnapshot and Header(-1) for the one not yet read.
NoRead == [snapshot |-> NoSnapshot, Block |-> Header(-1)]

Init ==
    \E requested \in 0..MaxRequested, fs \in FeatureSets :
        LET s == NewIAVLStore(requested)
        IN  /\ tree = s.tree
            /\ maxVersions = s.maxVersions
            /\ lastBlockHeader = Header(0)
            /\ curBlockHeader = Header(0)
            /\ curBlockHash = <<>>
            /\ childTxRefs = <<>>
            /\ features = fs
            /\ currentReceipt = NoReceipt
            /\ committedReceipts = {}
            /\ pendingEvents = {}
            /\ committedEvents = {}
            /\ status = "running"
            /\ phase = "idle"
            /\ delivered = <<>>
            /\ deliverCall = NoCall
            /\ checkCall = NoCall
            /\ commitCall = NoCommit
            /\ readCall = NoRead
            /\ atomicTx = NoTx
            /\ config = NoCachedConfig
            /\ emit = NoEmission
            /\ diffStore = NoDiffStore
            /\ gateway = NoGateway
            /\ resp = NoResp

\* panic(...): the node stops; nothing the handler has not yet assigned
\* changes.  calls are the calls the handler made before it.
Panic(op, reason, calls) ==
    /\ status' = "panicked"
    /\ resp' = [Resp(op, reason, 0, NilHash) EXCEPT !.code = 1,
                                                     !.calls = calls]

PanicAt(op, h, reason, calls) ==
    /\ status' = "panicked"
    /\ resp' = [Resp(op, reason, 0, NilHash) EXCEPT !.code = 1, !.arg = h,
                                                     !.calls = calls]

\* The height check of BeginBlock and EndBlock, letting repeats through.
HeightMismatchGapsOnly(h) == h > height

\* block.Height != a.height()
HeightMismatch(h) == h # height

\* An InitChain that returns normally when the callback failed.
InitChainIgnoresInitError(init) ==
    /\ status = "running"
    /\ phase = "idle"
    /\ IF height # 1
       THEN /\ Panic("InitChain", <<"state version is not 1">>, <<>>)
            /\ UNCHANGED tree
       ELSE /\ tree' = IF init = "none"
                       THEN tree
                       ELSE TxCommit(Stage(BeginTx, GenesisWrites), tree)
            /\ resp' = [Resp("InitChain", <<>>, 0, NilHash) EXCEPT
                           !.calls = IF init = "none"
                                     THEN <<>>
                                     ELSE <<Called("Init", init)>>]
            /\ UNCHANGED status
    /\ UNCHANGED <<maxVersions, lastBlockHeader, curBlockHeader, curBlockHash,
                   childTxRefs, features, currentReceipt, committedReceipts,
                   pendingEvents, committedEvents, phase, delivered,
                   deliverCall, checkCall>>
    /\ UNCHANGED <<callVars, config, emit, diffStore, gateway>>

\* init: "none" when a.Init is nil, otherwise what a.Init(state) did: "ok"
\* or "err".  The call of a.Init and its outcome are in the calls.
InitChain(init) ==
    /\ status = "running"
    /\ phase = "idle"
    /\ IF height # 1
       THEN /\ Panic("InitChain", <<"state version is not 1">>, <<>>)
            /\ UNCHANGED tree
       ELSE IF init = "err"
            THEN /\ Panic("InitChain", <<"init failed">>,
                          <<Called("Init", "err")>>)
                 /\ tree' = TxCommit(Stage(BeginTx, GenesisWrites), tree)
            ELSE /\ tree' = IF init = "ok"
                            THEN TxCommit(Stage(BeginTx, GenesisWrites), tree)
                            ELSE tree
                 /\ resp' = [Resp("InitChain", <<>>, 0, NilHash) EXCEPT
                                !.calls = IF init = "ok"
                                          THEN <<Called("Init", "ok")>>
                                          ELSE <<>>]
                 /\ UNCHANGED status
    /\ UNCHANGED <<maxVersions, lastBlockHeader, curBlockHeader, curBlockHash,
                   childTxRefs, features, currentReceipt, committedReceipts,
                   pendingEvents, committedEvents, phase, delivered,
                   deliverCall, checkCall>>
    /\ UNCHANGED <<callVars, config, emit, diffStore, gateway>>

UpkeepOutcomes == {"disabled", "nilHandler", "ok", "err"}
ValidatorOutcomes == {"notFound", "ok", "err"}
ChainConfigOutcomes == {"nil", "ok", "err"}
\* With them, UpdateConfig reporting changes ("changed"), and
\* LoadOnChainConfig failing ("loadErr").
ConfigOutcomes == ChainConfigOutcomes \cup {"changed", "loadErr"}

\* if a.config == nil { a.config, err = store.LoadOnChainConfig(a.Store) }
LoadedConfig(c) ==
    IF c.cached = NilConfig THEN [c EXCEPT !.cached = c.stored] ELSE c

\* if numConfigChanges > 0 { a.config = nil }, the changes being committed
\* with storeTx.
ConfigAfter(c, chainConfig) ==
    IF chainConfig = "changed"
    THEN [cached |-> NilConfig, stored |-> 1 - c.stored]
    ELSE LoadedConfig(c)

BeginBlock(h, upkeep, validators, chainConfig) ==
    /\ status = "running"
    /\ phase = "idle"
    /\ deliverCall.pc = "idle"
    /\ h = height => Version(tree) < MaxHeight
    /\ IF HeightMismatch(h)
       THEN /\ PanicAt("BeginBlock", h,
                       <<"app height doesn't match BeginBlock height">>, <<>>)
            /\ UNCHANGED <<tree, curBlockHeader, curBlockHash, phase, delivered,
                           config>>
       ELSE IF chainConfig = "loadErr" /\ config.cached = NilConfig
       THEN /\ PanicAt("BeginBlock", h, <<"LoadOnChainConfig failed">>, <<>>)
            /\ UNCHANGED <<tree, curBlockHeader, curBlockHash, phase, delivered,
                           config>>
       ELSE LET upkeepStoreTx == Stage(BeginTx, UpkeepWrites)
                afterUpkeep == IF upkeep = "ok"
                               THEN TxCommit(upkeepStoreTx, tree)
                               ELSE tree
                staged1 == IF validators = "ok"
                           THEN Stage(BeginTx, ValidatorWrites)
                           ELSE BeginTx
                storeTx == IF chainConfig \in {"ok", "changed"}
                           THEN Stage(staged1, ChainConfigWrites)
                           ELSE staged1
                upkeepCalls ==
                    CASE upkeep = "disabled" -> <<>>
                      [] upkeep = "nilHandler" ->
                             Transaction("upkeepStoreTx", <<>>)
                      [] upkeep = "ok" ->
                             Transaction("upkeepStoreTx", <<"Commit">>)
                      [] upkeep = "err" ->
                             Transaction("upkeepStoreTx", <<>>)
            IN  /\ curBlockHeader' = Header(h)
                /\ curBlockHash' = BlockHash(h)
                /\ IF upkeep = "err"
                   THEN /\ PanicAt("BeginBlock", h, <<"upkeep failed">>,
                                   upkeepCalls)
                        /\ config' = LoadedConfig(config)
                        /\ UNCHANGED <<tree, phase, delivered>>
                   ELSE IF validators = "err" \/ chainConfig = "err"
                        THEN /\ PanicAt("BeginBlock", h, <<"manager failed">>,
                                        upkeepCalls \o
                                        Transaction("storeTx", <<>>))
                             /\ tree' = afterUpkeep
                             /\ config' = LoadedConfig(config)
                             /\ UNCHANGED <<phase, delivered>>
                        ELSE /\ tree' = TxCommit(storeTx, afterUpkeep)
                             /\ config' = ConfigAfter(config, chainConfig)
                             /\ phase' = "begun"
                             /\ delivered' = <<>>
                             /\ resp' = [Resp("BeginBlock", <<>>, 0, NilHash)
                                            EXCEPT !.arg = h,
                                                   !.config =
                                                       LoadedConfig(config).cached,
                                                   !.calls = upkeepCalls \o
                                                       Transaction("storeTx", <<"Commit">>)]
                             /\ UNCHANGED status
    /\ UNCHANGED <<maxVersions, lastBlockHeader, childTxRefs, features,
                   currentReceipt, committedReceipts, pendingEvents,
                   committedEvents, deliverCall, checkCall>>
    /\ UNCHANGED <<callVars, emit, diffStore, gateway>>

ReceiptCommitOutcomes == {"ok", "err"}

\* What a.CreateValidatorManager(state) and validatorManager.EndBlock(req)
\* do: "notFound" is registry.ErrNotFound, "createErr" any other error of
\* the factory, "err" an error of the manager's EndBlock, "ok" neither.
EndBlockValidatorOutcomes == {"notFound", "ok", "createErr", "err"}

\* The updates a validator manager returns.
ValidatorUpdates == <<"update">>

\* The calls EndBlock makes to get the validator updates.
ValidatorCalls(validators) ==
    IF validators = "notFound"
    THEN <<Called("CreateValidatorManager", "ErrNotFound")>>
    ELSE IF validators = "createErr"
         THEN <<Called("CreateValidatorManager", "err")>>
         ELSE <<Called("CreateValidatorManager", "ok"),
                Called("validatorManager.EndBlock", validators)>>

\* Only a failing validatorManager.EndBlock is fatal.
ValidatorFailureFatalInEndBlockOnly(validators) == validators = "err"

\* The errors EndBlock panics on: every error of the factory but
\* ErrNotFound, and every error of the manager's EndBlock.
ValidatorFailureFatal(validators) == validators \in {"createErr", "err"}

EndBlock(h, receipts, validators) ==
    /\ status = "running"
    /\ phase = "begun"
    /\ deliverCall.pc = "idle"
    /\ IF HeightMismatch(h)
       THEN /\ PanicAt("EndBlock", h,
                       <<"app height doesn't match EndBlock height">>, <<>>)
            /\ UNCHANGED <<tree, committedReceipts, phase>>
       ELSE LET storeTx == IF validators \in {"ok", "err"}
                           THEN Stage(BeginTx, EndBlockWrites)
                           ELSE BeginTx
                receiptCalls ==
                    Transaction("storeTx@293", IF receipts = "ok" THEN <<"Commit">>
                                                   ELSE <<"Rollback">>)
                    \o (IF receipts = "ok" THEN <<>>
                        ELSE <<Logged("aborted committing block receipts")>>)
            IN  /\ committedReceipts' =
                       IF receipts = "ok" THEN {} ELSE committedReceipts
                /\ IF ValidatorFailureFatal(validators)
                   THEN /\ PanicAt("EndBlock", h, <<"validator manager failed">>,
                                   receiptCalls \o
                                   Transaction("storeTx@306", <<>>) \o
                                   ValidatorCalls(validators))
                        /\ UNCHANGED <<tree, phase>>
                   ELSE /\ tree' = IF validators = "ok"
                                   THEN TxCommit(storeTx, tree)
                                   ELSE tree
                        /\ phase' = "ended"
                        /\ resp' = [Resp("EndBlock", <<>>, 0, NilHash)
                                       EXCEPT !.arg = h,
                                              !.config = config.cached,
                                              !.updates =
                                                  IF validators = "ok"
                                                  THEN ValidatorUpdates
                                                  ELSE <<>>,
                                              !.calls = receiptCalls \o
                                                  (IF validators = "ok"
                                                   THEN Transaction("storeTx@306", <<>>)
                                                        \o ValidatorCalls(validators)
                                                        \o <<Called("storeTx@306", "Commit")>>
                                                   ELSE Transaction("storeTx@306", <<>>)
                                                        \o ValidatorCalls(validators))]
                        /\ UNCHANGED status
    /\ UNCHANGED <<maxVersions, lastBlockHeader, curBlockHeader, curBlockHash,
                   childTxRefs, features, currentReceipt, pendingEvents,
                   committedEvents, delivered, deliverCall, checkCall>>
    /\ UNCHANGED <<callVars, config, emit, diffStore, gateway>>

\* CheckTx ending its transaction with Commit instead of Rollback.
CheckTxCommits(tx) ==
    /\ status = "running"
    /\ IF curBlockHeader.Height = 0
       THEN /\ resp' = Resp("CheckTx", <<>>, 0, NilHash)
            /\ UNCHANGED <<tree, currentReceipt, pendingEvents>>
       ELSE LET storeTx == BeginTx
                r == ProcessTx(storeTx, tx, TRUE)
            IN  /\ pendingEvents' = {}
                /\ currentReceipt' = NoReceipt
                /\ tree' = TxCommit(r.storeTx, tree)
                /\ resp' = [Resp("CheckTx", IF r.err THEN <<"rejected">> ELSE <<>>,
                                 0, NilHash)
                               EXCEPT !.code = IF r.err THEN 1 ELSE 0,
                                      !.config = config.cached,
                                      !.view = TxView(storeTx, tree),
                                      !.calls = Transaction("storeTx", <<"Commit">>)]
    /\ UNCHANGED <<maxVersions, lastBlockHeader, curBlockHeader,
                   curBlockHash, childTxRefs, features, committedReceipts,
                   committedEvents, status, phase, delivered, deliverCall,
                   checkCall>>
    /\ UNCHANGED <<callVars, config, emit, diffStore, gateway>>

\* A CheckTx that runs the handler whatever the current block header is.
CheckTxBeforeFirstBlock(tx) ==
    /\ status = "running"
    /\ checkCall.pc = "idle"
    /\ LET storeTx == BeginTx
           r == ProcessTx(storeTx, tx, TRUE)
       IN  /\ pendingEvents' = {}
           /\ currentReceipt' = NoReceipt
           /\ resp' = [Resp("CheckTx", IF r.err THEN <<"rejected">> ELSE <<>>,
                            0, NilHash)
                          EXCEPT !.code = IF r.err THEN 1 ELSE 0,
                                 !.config = config.cached,
                                 !.view = TxView(storeTx, tree),
                                 !.calls = Transaction("storeTx", <<"Rollback">>)]
    /\ UNCHANGED <<tree, maxVersions, lastBlockHeader, curBlockHeader,
                   curBlockHash, childTxRefs, features, committedReceipts,
                   committedEvents, status, phase, delivered, deliverCall,
                   checkCall>>
    /\ UNCHANGED <<callVars, config, emit, diffStore, gateway>>

CheckTx(tx) ==
    /\ status = "running"
    /\ checkCall.pc = "idle"
    /\ IF curBlockHeader.Height = 0
       THEN /\ resp' = Resp("CheckTx", <<>>, 0, NilHash)
            /\ UNCHANGED <<currentReceipt, pendingEvents>>
       ELSE LET storeTx == BeginTx
                r == ProcessTx(storeTx, tx, TRUE)
            IN  \* deferred: EventHandler.Rollback(), DiscardCurrentReceipt(),
                \* storeTx.Rollback()
                /\ pendingEvents' = {}
                /\ currentReceipt' = NoReceipt
                /\ resp' = [Resp("CheckTx", IF r.err THEN <<"rejected">> ELSE <<>>,
                                 0, NilHash)
                               EXCEPT !.code = IF r.err THEN 1 ELSE 0,
                                      !.config = config.cached,
                                      !.view = TxView(storeTx, tree),
                                      !.calls = Transaction("storeTx", <<"Rollback">>)]
    /\ UNCHANGED <<tree, maxVersions, lastBlockHeader, curBlockHeader,
                   curBlockHash, childTxRefs, features, committedReceipts,
                   committedEvents, status, phase, delivered, deliverCall,
                   checkCall>>
    /\ UNCHANGED <<callVars, config, emit, diffStore, gateway>>

\* The receipt and cross-reference bookkeeping shared by both DeliverTx
\* variants: a link is recorded when the receipt's hash differs from the
\* transaction's.
RefsWith(refs, tx, receiptTxHash) ==
    IF tx.hash # receiptTxHash
    THEN Append(refs, ChildTxRef(tx.hash, receiptTxHash))
    ELSE refs

\* The store after a DeliverTx that commits whatever the handler returned.
DeliverStoreAlwaysCommits(r, t) == TxCommit(r.storeTx, t)

\* The store after DeliverTx: storeTx.Commit() when the handler succeeded,
\* the deferred storeTx.Rollback() alone when it failed.
DeliverStore(r, t) == IF r.err THEN t ELSE TxCommit(r.storeTx, t)

\* How DeliverTx ends its transaction: storeTx.Commit() when the handler
\* succeeded, and the deferred storeTx.Rollback() in every case.
DeliverEnds(r) == IF r.err THEN <<"Rollback">> ELSE <<"Commit", "Rollback">>

\* The record of a DeliverTx call in the block: its result code.
Delivered(tx, code) == code

\* The current receipt after the handler ran: the handler's receipt when it
\* left one.
ReceiptAfter(r, current) == IF r.receipt # NoReceipt THEN r.receipt ELSE current

\* What a DeliverTx leaves behind and returns.
Outcome(t, refs, receipts, events, code) ==
    [tree |-> t, childTxRefs |-> refs, committedReceipts |-> receipts,
     committedEvents |-> events, code |-> code]

\* deliverTx / processTx: receipts of failed transactions are not stored.
\* r is what ProcessTx returned; receipt is what GetCurrentReceipt() returns
\* and events are the uncommitted events when processTx goes on after it.
deliverTx(tx, r, receipt, events) ==
    LET saveEvmTxReceipt == r.info = CallEVM
                            \/ FeatureEnabled(EvmTxReceiptsVersion3)
        hasReceipt == saveEvmTxReceipt /\ receipt # NoReceipt
    IN  IF r.err
        THEN Outcome(DeliverStore(r, tree), childTxRefs, committedReceipts,
                     committedEvents, 1)
        ELSE Outcome(DeliverStore(r, tree),
                     IF hasReceipt THEN RefsWith(childTxRefs, tx, receipt)
                                   ELSE childTxRefs,
                     IF hasReceipt THEN committedReceipts \cup {receipt}
                                   ELSE committedReceipts,
                     committedEvents \cup events,
                     0)

\* A deliverTx2 that drops the receipt of a failed transaction.
deliverTx2DropsFailedReceipt(tx, r, receipt, events) ==
    LET hasReceipt == receipt # NoReceipt
        refs == IF hasReceipt THEN RefsWith(childTxRefs, tx, receipt)
                              ELSE childTxRefs
        receipts == IF hasReceipt THEN committedReceipts \cup {receipt}
                                  ELSE committedReceipts
    IN  IF r.err
        THEN Outcome(DeliverStore(r, tree), childTxRefs, committedReceipts,
                     committedEvents, 1)
        ELSE Outcome(DeliverStore(r, tree), refs, receipts,
                     committedEvents \cup events, 0)

\* deliverTx2: the receipt is stored even when the transaction failed.
deliverTx2(tx, r, receipt, events) ==
    LET hasReceipt == receipt # NoReceipt
        refs == IF hasReceipt THEN RefsWith(childTxRefs, tx, receipt)
                              ELSE childTxRefs
        receipts == IF hasReceipt THEN committedReceipts \cup {receipt}
                                  ELSE committedReceipts
    IN  IF r.err
        THEN Outcome(DeliverStore(r, tree), refs, receipts, committedEvents, 1)
        ELSE Outcome(DeliverStore(r, tree), refs, receipts,
                     committedEvents \cup events, 0)

\* A call of EmitTxEvent on one of the event handler's subscription sets,
\* made by DeliverTx itself and returned before DeliverTx goes on; an error
\* it returns is logged.
Emission(set, fails) == <<set, "EmitTxEvent", IF fails THEN "err" ELSE "ok">>

\* The EmitTxEvent calls of a DeliverTx, in order: none when the handler
\* failed; in processTx only when saveEvmTxReceipt; the second one only
\* when there is a current receipt.
TxEmissions(r, receipt, emitFails) ==
    LET saveEvmTxReceipt == r.info = CallEVM
                            \/ FeatureEnabled(EvmTxReceiptsVersion3)
        legacy == <<Emission("LegacyEthSubscriptionSet", emitFails)>>
        eth == IF receipt # NoReceipt
               THEN <<Emission("EthSubscriptionSet", emitFails)>>
               ELSE <<>>
    IN  IF r.err
        THEN <<>>
        ELSE IF FeatureEnabled(EvmTxReceiptsVersion3_1)
             THEN legacy \o eth
             ELSE IF saveEvmTxReceipt THEN legacy \o eth ELSE <<>>

\* DeliverTx from the return of ProcessTx on, the deferred calls included.
DeliverTxReturn(tx, r, receipt, events, emitFails) ==
    LET o == IF FeatureEnabled(EvmTxReceiptsVersion3_1)
             THEN deliverTx2(tx, r, receipt, events)
             ELSE deliverTx(tx, r, receipt, events)
    IN  /\ tree' = o.tree
        /\ childTxRefs' = o.childTxRefs
        /\ committedReceipts' = o.committedReceipts
        /\ committedEvents' = o.committedEvents
        /\ delivered' = Append(delivered, Delivered(tx, o.code))
        /\ resp' = [Resp("DeliverTx",
                         IF o.code = 0 THEN <<>> ELSE <<"rejected">>,
                         0, NilHash)
                       EXCEPT !.code = o.code, !.arg = tx.hash,
                              !.config = config.cached,
                              !.emitted = TxEmissions(r, receipt, emitFails),
                              !.calls = Transaction("storeTx", DeliverEnds(r))]
        \* deferred: EventHandler.Rollback(), DiscardCurrentReceipt(),
        \* storeTx.Rollback()
        /\ pendingEvents' = {}
        /\ currentReceipt' = NoReceipt

\* emitFails: the EmitTxEvent calls of the subscription sets return errors.
DeliverTxEmitting(tx, emitFails) ==
    /\ status = "running"
    /\ phase = "begun"
    /\ deliverCall.pc = "idle"
    /\ Len(delivered) < MaxTxsPerBlock
    /\ LET storeTx == BeginTx
           r == ProcessTx(storeTx, tx, FALSE)
       IN  DeliverTxReturn(tx, r, ReceiptAfter(r, currentReceipt),
                           pendingEvents \cup r.events, emitFails)
    /\ UNCHANGED <<maxVersions, lastBlockHeader, curBlockHeader, curBlockHash,
                   features, status, phase, deliverCall, checkCall>>
    /\ UNCHANGED <<callVars, config, emit, diffStore, gateway>>

\* DeliverTx with subscription sets that take every event.
DeliverTx(tx) == DeliverTxEmitting(tx, FALSE)

\* ResponseCommit.Data when Prune failing makes Commit return no hash.
CommitDataNoneOnPruneError(saved, pruned) ==
    IF pruned.err # <<>> THEN NilHash ELSE saved.hash

\* ResponseCommit.Data: the appHash SaveVersion returned.
CommitData(saved, pruned) == saved.hash

\* A pending list that is kept for the next block when saving it failed.
RefsKeptWhenSaveFailed(refs, refsFail) == IF refsFail THEN refs ELSE <<>>

\* a.childTxRefs after Commit has handed refs to SaveChildTxRefs.
RefsAfterCommit(refs, refsFail) == <<>>

\* The calls of a Commit whose SaveVersion succeeded.
CommitCalls(refsFail, emitFails, pruned) ==
    <<Called("Store", "SaveVersion"), Called("EvmAuxStore", "SaveChildTxRefs")>>
    \o (IF refsFail
        THEN <<Logged("Failed to save Tendermint -> EVM tx hash refs")>>
        ELSE <<>>)
    \o <<Called("go", "EmitBlockTx"), Called("Store", "Prune")>>
    \o (IF pruned.err # <<>> THEN <<Logged("failed to prune app.db")>>
                             ELSE <<>>)
    \o <<Called("BlockIndexStore", "SetBlockHashAtHeight")>>
    \o (IF emitFails THEN <<Logged("Emit Block Event error")>> ELSE <<>>)

\* go func(height, blockHeader) { ... }(height, a.curBlockHeader): the
\* goroutine is started and Commit goes on.
Started(e, h) == [e EXCEPT !.started = @ \cup {h}]

\* saveFails, pruneFails: the backing engine fails in SaveVersion, in Prune;
\* refsFail: EvmAuxStore.SaveChildTxRefs returns an error; emitFails: the
\* emission of the block events, started with go, returns errors.
Commit(saveFails, refsFail, emitFails, pruneFails) ==
    /\ status = "running"
    /\ phase = "ended"
    /\ commitCall.pc = "idle"
    /\ LET saved == SaveVersion(tree, saveFails)
           pruned == Prune(saved.tree, maxVersions, pruneFails)
           calls == CommitCalls(refsFail, emitFails, pruned)
       IN  IF saved.err # <<>>
           THEN /\ Panic("Commit", saved.err, <<Called("Store", "SaveVersion")>>)
                /\ tree' = saved.tree
                /\ UNCHANGED <<lastBlockHeader, childTxRefs, committedEvents,
                               phase, delivered, emit, diffStore, gateway>>
           ELSE /\ childTxRefs' = RefsAfterCommit(childTxRefs, refsFail)
                /\ emit' = Started(emit, curBlockHeader.Height)
                /\ committedEvents' = {}
                /\ lastBlockHeader' = curBlockHeader
                /\ tree' = pruned.tree
                /\ phase' = "idle"
                /\ delivered' = <<>>
                /\ resp' = [Resp("Commit", <<>>, 0, CommitData(saved, pruned))
                               EXCEPT !.arg = delivered, !.calls = calls,
                                      !.refs = childTxRefs]
                /\ UNCHANGED status
    /\ UNCHANGED <<maxVersions, curBlockHeader, curBlockHash, features,
                   currentReceipt, committedReceipts, pendingEvents,
                   deliverCall, checkCall>>
    /\ UNCHANGED <<callVars, config, diffStore, gateway>>

\* The heights other than the expected one that the consensus engine may
\* call with: the height just committed and the one after the expected.
WrongHeights == {h \in {height - 1, height + 1} : h >= 1}

InitOutcomes == {"none", "ok", "err"}

\* Which of SaveChildTxRefs, the emission of the block events and Prune fail
\* in a Commit: none, one of them, or all three.
CommitFailures == {<<FALSE, FALSE, FALSE>>, <<TRUE, FALSE, FALSE>>,
                   <<FALSE, TRUE, FALSE>>, <<FALSE, FALSE, TRUE>>,
                   <<TRUE, TRUE, TRUE>>}

\* A call that stops at its first check (the height check of InitChain,
\* BeginBlock and EndBlock, the SaveVersion of Commit) never reaches its
\* callbacks, so it is taken with one choice of their outcomes.
Next ==
    \/ \E init \in IF height = 1 THEN InitOutcomes ELSE {"none"} :
          InitChain(init)
    \/ \E upkeep \in UpkeepOutcomes, validators \in ValidatorOutcomes,
          chainConfig \in ChainConfigOutcomes :
          BeginBlock(height, upkeep, validators, chainConfig)
    \/ \E h \in WrongHeights : BeginBlock(h, "disabled", "notFound", "nil")
    \/ \E tx \in Txs : CheckTx(tx)
    \/ \E tx \in Txs : DeliverTx(tx)
    \/ \E receipts \in ReceiptCommitOutcomes,
          validators \in EndBlockValidatorOutcomes :
          EndBlock(height, receipts, validators)
    \/ \E h \in WrongHeights : EndBlock(h, "ok", "notFound")
    \/ \E f \in CommitFailures : Commit(FALSE, f[1], f[2], f[3])
    \/ Commit(TRUE, FALSE, FALSE, FALSE)

Spec == Init /\ [][Next]_vars

(***************************************************************************)
(* The block lifecycle with a chain-config manager whose UpdateConfig may  *)
(* report changes, and a LoadOnChainConfig that may fail.  The upkeep      *)
(* handler is disabled, there is no validator manager, and nothing fails   *)
(* in Commit.                                                              *)
(***************************************************************************)
ConfigNext ==
    \/ \E chainConfig \in ConfigOutcomes :
          BeginBlock(height, "disabled", "notFound", chainConfig)
    \/ \E tx \in Txs : CheckTx(tx)
    \/ \E tx \in Txs : DeliverTx(tx)
    \/ EndBlock(height, "ok", "notFound")
    \/ Commit(FALSE, FALSE, FALSE, FALSE)

ConfigInit == Init /\ features = {}

ConfigSpec == ConfigInit /\ [][ConfigNext]_vars

(***************************************************************************)
(* The goroutines of Commit.  Each emits the block events of the height it *)
(* was started with, whenever the scheduler runs it: nothing orders it     *)
(* with the calls of the consensus engine that follow nor with the other   *)
(* goroutines.  fails: EmitBlockTx and EmitBlockEvent return errors, which *)
(* are logged.                                                             *)
(***************************************************************************)
EmitBlockTx(h, fails) ==
    /\ status = "running"
    /\ h \in emit.started
    /\ emit' = [started |-> emit.started \ {h},
                blocks |-> Append(emit.blocks, h)]
    /\ resp' = [Resp("EmitBlockTx", <<>>, 0, NilHash)
                   EXCEPT !.arg = h,
                          !.calls = IF fails
                                    THEN <<Logged("Emit Block Event error")>>
                                    ELSE <<>>]
    /\ UNCHANGED <<tree, maxVersions, appVars, callVars, config, diffStore,
                   gateway>>

\* The blocks run at the expected heights with no block callback, and
\* nothing fails but the emission of events.
EmitNext ==
    \/ BeginBlock(height, "disabled", "notFound", "nil")
    \/ \E tx \in Txs, emitFails \in BOOLEAN : DeliverTxEmitting(tx, emitFails)
    \/ EndBlock(height, "ok", "notFound")
    \/ Commit(FALSE, FALSE, FALSE, FALSE)
    \/ \E h \in 1..MaxHeight, fails \in BOOLEAN : EmitBlockTx(h, fails)

EmitSpec == Init /\ [][EmitNext]_vars

(***************************************************************************)
(* CheckTx arriving on the mempool connection while the consensus          *)
(* connection is inside DeliverTx.  No lock of the Application orders the  *)
(* two calls, so each is taken in steps: opening the transaction, the      *)
(* handler's run, and everything after the handler has returned.  The     *)
(* store takes no lock either: storeTx.Commit() of DeliverTx reaches it    *)
(* as one Set or Delete per staged write, taken one step each.             *)
(***************************************************************************)
DeliverTxBegin(tx) ==
    /\ status = "running"
    /\ phase = "begun"
    /\ deliverCall.pc = "idle"
    /\ Len(delivered) < MaxTxsPerBlock
    /\ deliverCall' = Call("begun", tx.hash, <<>>)
    /\ UNCHANGED <<tree, maxVersions, lastBlockHeader, curBlockHeader,
                   curBlockHash, childTxRefs, features, currentReceipt,
                   committedReceipts, pendingEvents, committedEvents, status,
                   phase, delivered, checkCall, resp>>
    /\ UNCHANGED <<callVars, config, emit, diffStore, gateway>>

DeliverTxProcess ==
    /\ deliverCall.pc = "begun"
    /\ LET tx == CHOOSE t \in Txs : t.hash = deliverCall.tx
           storeTx == BeginTx
           r == ProcessTx(storeTx, tx, FALSE)
       IN  /\ currentReceipt' = ReceiptAfter(r, currentReceipt)
           /\ pendingEvents' = pendingEvents \cup r.events
           /\ deliverCall' = Call("processed", tx.hash, TxView(storeTx, tree))
    /\ UNCHANGED <<tree, maxVersions, lastBlockHeader, curBlockHeader,
                   curBlockHash, childTxRefs, features, committedReceipts,
                   committedEvents, status, phase, delivered, checkCall, resp>>
    /\ UNCHANGED <<callVars, config, emit, diffStore, gateway>>

\* storeTx.Commit() applies the next staged write to the store.
DeliverTxCommitWrite ==
    /\ deliverCall.pc = "processed"
    /\ LET tx == CHOOSE t \in Txs : t.hash = deliverCall.tx
           r == ProcessTx(BeginTx, tx, FALSE)
           buffer == r.storeTx.buffer
       IN  /\ ~r.err
           /\ deliverCall.applied < Len(buffer)
           /\ tree' = ApplyBuffer(<<buffer[deliverCall.applied + 1]>>, tree)
           /\ deliverCall' = [deliverCall EXCEPT !.applied = @ + 1]
    /\ UNCHANGED <<maxVersions, lastBlockHeader, curBlockHeader, curBlockHash,
                   childTxRefs, features, currentReceipt, committedReceipts,
                   pendingEvents, committedEvents, status, phase, delivered,
                   checkCall, resp>>
    /\ UNCHANGED <<callVars, config, emit, diffStore, gateway>>

DeliverTxFinish ==
    /\ deliverCall.pc = "processed"
    /\ LET tx == CHOOSE t \in Txs : t.hash = deliverCall.tx
           r == ProcessTx(BeginTx, tx, FALSE)
       IN  /\ r.err \/ deliverCall.applied = Len(r.storeTx.buffer)
           /\ DeliverTxReturn(tx, r, currentReceipt, pendingEvents, FALSE)
    /\ deliverCall' = NoCall
    /\ UNCHANGED <<maxVersions, lastBlockHeader, curBlockHeader, curBlockHash,
                   features, status, phase, checkCall>>
    /\ UNCHANGED <<callVars, config, emit, diffStore, gateway>>

CheckTxBegin(tx) ==
    /\ status = "running"
    /\ checkCall.pc = "idle"
    /\ IF curBlockHeader.Height = 0
       THEN /\ resp' = Resp("CheckTx", <<>>, 0, NilHash)
            /\ UNCHANGED checkCall
       ELSE /\ checkCall' = Call("begun", tx.hash, <<>>)
            /\ UNCHANGED resp
    /\ UNCHANGED <<tree, maxVersions, lastBlockHeader, curBlockHeader,
                   curBlockHash, childTxRefs, features, currentReceipt,
                   committedReceipts, pendingEvents, committedEvents, status,
                   phase, delivered, deliverCall>>
    /\ UNCHANGED <<callVars, config, emit, diffStore, gateway>>

CheckTxProcess ==
    /\ checkCall.pc = "begun"
    /\ LET tx == CHOOSE t \in Txs : t.hash = checkCall.tx
           storeTx == BeginTx
           r == ProcessTx(storeTx, tx, TRUE)
       IN  /\ currentReceipt' = ReceiptAfter(r, currentReceipt)
           /\ pendingEvents' = pendingEvents \cup r.events
           /\ checkCall' = Call("processed", tx.hash, TxView(storeTx, tree))
    /\ UNCHANGED <<tree, maxVersions, lastBlockHeader, curBlockHeader,
                   curBlockHash, childTxRefs, features, committedReceipts,
                   committedEvents, status, phase, delivered, deliverCall, resp>>
    /\ UNCHANGED <<callVars, config, emit, diffStore, gateway>>

CheckTxFinish ==
    /\ checkCall.pc = "processed"
    /\ LET tx == CHOOSE t \in Txs : t.hash = checkCall.tx
           r == ProcessTx(BeginTx, tx, TRUE)
       IN  \* deferred: EventHandler.Rollback(), DiscardCurrentReceipt(),
           \* storeTx.Rollback()
           /\ pendingEvents' = {}
           /\ currentReceipt' = NoReceipt
           /\ resp' = [Resp("CheckTx", IF r.err THEN <<"rejected">> ELSE <<>>,
                            0, NilHash)
                          EXCEPT !.code = IF r.err THEN 1 ELSE 0,
                                 !.config = config.cached,
                                 !.view = checkCall.view,
                                 !.calls = Transaction("storeTx", <<"Rollback">>)]
    /\ checkCall' = NoCall
    /\ UNCHANGED <<tree, maxVersions, lastBlockHeader, curBlockHeader,
                   curBlockHash, childTxRefs, features, committedReceipts,
                   committedEvents, status, phase, delivered, deliverCall>>
    /\ UNCHANGED <<callVars, config, emit, diffStore, gateway>>

\* The block callbacks play no part in the interleavings: the blocks run at
\* the expected heights, with the upkeep handler disabled, no validator or
\* chain-config manager, and a backing engine that does not fail.
ConcNext ==
    \/ BeginBlock(height, "disabled", "notFound", "nil")
    \/ \E tx \in Txs : DeliverTxBegin(tx)
    \/ DeliverTxProcess
    \/ DeliverTxCommitWrite
    \/ DeliverTxFinish
    \/ \E tx \in Txs : CheckTxBegin(tx)
    \/ CheckTxProcess
    \/ CheckTxFinish
    \/ EndBlock(height, "ok", "notFound")
    \/ Commit(FALSE, FALSE, FALSE, FALSE)

ConcSpec == Init /\ [][ConcNext]_vars

(***************************************************************************)
(* Queries.  Query and ReadOnlyState are served while the consensus        *)
(* connection is inside Commit; no lock of the Application orders them, so *)
(* Commit is taken in two steps, up to the return of SaveVersion and from  *)
(* there on, and ReadOnlyState in two, one for each of its two reads.      *)
(***************************************************************************)
\* ReadOnlyState building its state over a.Store itself.
ReadOnlyStateOverStore ==
    [Block |-> lastBlockHeader, version |-> Version(tree), view |-> tree.root]

\* The state ReadOnlyState returns, read in one go: the last block header,
\* and the version and contents its snapshot reads.
ReadOnlyState ==
    [Block |-> lastBlockHeader,
     version |-> GetSnapshot(tree).version,
     view |-> SnapshotView(tree, GetSnapshot(tree))]

QueryOutcomes == {"nil", "ok", "err"}

\* handler: a.QueryHandler is nil, or what its Handle returns.  The handler
\* reads the store through the state it is given.
Query(handler) ==
    /\ status = "running"
    /\ LET state == ReadOnlyState
       IN  resp' = IF handler = "nil"
                   THEN [Resp("Query", <<"not implemented">>, 0, NilHash)
                            EXCEPT !.code = 1]
                   ELSE [Resp("Query",
                              IF handler = "err" THEN <<"query failed">>
                                                 ELSE <<>>,
                              state.version, NilHash)
                            EXCEPT !.code = IF handler = "err" THEN 1 ELSE 0,
                                   !.arg = state.Block.Height,
                                   !.view = state.view]
    /\ UNCHANGED <<tree, maxVersions, appVars, callVars, config, emit, diffStore, gateway>>

\* Info: LastBlockAppHash and LastBlockHeight are Store.Hash() and
\* Store.Version().
Info ==
    /\ resp' = Resp("Info", <<>>, Version(tree), Hash(tree))
    /\ UNCHANGED <<tree, maxVersions, appVars, callVars, config, emit, diffStore, gateway>>

CommitSaveVersion(saveFails) ==
    /\ status = "running"
    /\ phase = "ended"
    /\ commitCall.pc = "idle"
    /\ LET saved == SaveVersion(tree, saveFails)
       IN  /\ tree' = saved.tree
           /\ IF saved.err # <<>>
              THEN /\ Panic("Commit", saved.err,
                            <<Called("Store", "SaveVersion")>>)
                   /\ UNCHANGED commitCall
              ELSE /\ commitCall' = [pc |-> "saved", hash |-> saved.hash]
                   /\ UNCHANGED <<status, resp>>
    /\ UNCHANGED <<maxVersions, lastBlockHeader, curBlockHeader, curBlockHash,
                   childTxRefs, features, currentReceipt, committedReceipts,
                   pendingEvents, committedEvents, phase, delivered,
                   deliverCall, checkCall, readCall, atomicTx, config, emit, diffStore, gateway>>

CommitFinish(refsFail, emitFails, pruneFails) ==
    /\ commitCall.pc = "saved"
    /\ LET pruned == Prune(tree, maxVersions, pruneFails)
       IN  /\ childTxRefs' = RefsAfterCommit(childTxRefs, refsFail)
           /\ emit' = Started(emit, curBlockHeader.Height)
           /\ committedEvents' = {}
           /\ lastBlockHeader' = curBlockHeader
           /\ tree' = pruned.tree
           /\ phase' = "idle"
           /\ delivered' = <<>>
           /\ resp' = [Resp("Commit", <<>>, 0, CommitData(commitCall, pruned))
                          EXCEPT !.arg = delivered,
                                 !.calls = CommitCalls(refsFail, emitFails,
                                                       pruned),
                                 !.refs = childTxRefs]
    /\ commitCall' = NoCommit
    /\ UNCHANGED <<maxVersions, curBlockHeader, curBlockHash, features,
                   currentReceipt, committedReceipts, pendingEvents, status,
                   deliverCall, checkCall, readCall, atomicTx, config,
                   diffStore, gateway>>

\* What ReadOnlyState returns once it has read both.
ReadOnlyStateReturn(read) ==
    [Resp("ReadOnlyState", <<>>, read.snapshot.version, NilHash)
        EXCEPT !.arg = read.Block.Height,
               !.view = SnapshotView(tree, read.snapshot)]

\* a.Store.GetSnapshot()
ReadOnlyStateSnapshot ==
    /\ status = "running"
    /\ readCall.snapshot = NoSnapshot
    /\ LET read == [readCall EXCEPT !.snapshot = GetSnapshot(tree)]
       IN  IF read.Block = Header(-1)
           THEN readCall' = read /\ UNCHANGED resp
           ELSE readCall' = NoRead /\ resp' = ReadOnlyStateReturn(read)
    /\ UNCHANGED <<tree, maxVersions, appVars, commitCall, atomicTx, config, emit, diffStore, gateway>>

\* a.lastBlockHeader
ReadOnlyStateHeader ==
    /\ status = "running"
    /\ readCall.Block = Header(-1)
    /\ LET read == [readCall EXCEPT !.Block = lastBlockHeader]
       IN  IF read.snapshot = NoSnapshot
           THEN readCall' = read /\ UNCHANGED resp
           ELSE readCall' = NoRead /\ resp' = ReadOnlyStateReturn(read)
    /\ UNCHANGED <<tree, maxVersions, appVars, commitCall, atomicTx, config, emit, diffStore, gateway>>

\* The blocks run at the expected heights; of the block callbacks only the
\* validator manager is there, or not; of the steps of Commit only
\* SaveVersion may fail.
QueryNext ==
    \/ \E validators \in {"notFound", "ok"} :
          BeginBlock(height, "disabled", validators, "nil")
    \/ \E tx \in Txs : DeliverTx(tx)
    \/ \E validators \in {"notFound", "ok"} : EndBlock(height, "ok", validators)
    \/ \E saveFails \in BOOLEAN : CommitSaveVersion(saveFails)
    \/ CommitFinish(FALSE, FALSE, FALSE)
    \/ ReadOnlyStateSnapshot
    \/ ReadOnlyStateHeader
    \/ \E handler \in QueryOutcomes : Query(handler)
    \/ Info

QueryInit == Init /\ features = {}

QuerySpec == QueryInit /\ [][QueryNext]_vars

(***************************************************************************)
(* One transaction at a time driven directly through its interface by its  *)
(* single owner; between two transactions the parent store is written      *)
(* directly.  atomicTx.opened is the parent as it was at BeginTx; the      *)
(* response of Rollback carries the number of writes it discarded.         *)
(***************************************************************************)
ParentSet(key, val) ==
    /\ atomicTx.state # "open"
    /\ tree' = Set(tree, key, val)
    /\ resp' = Resp("Set", <<>>, 0, NilHash)
    /\ UNCHANGED <<maxVersions, appVars, callVars, config, emit, diffStore, gateway>>

AtomicBeginTx ==
    /\ atomicTx.state # "open"
    /\ atomicTx' = [state |-> "open", buffer |-> BeginTx.buffer,
                    opened |-> tree]
    /\ resp' = Resp("BeginTx", <<>>, 0, NilHash)
    /\ UNCHANGED <<tree, maxVersions, appVars, commitCall, readCall, config, emit, diffStore, gateway>>

AtomicSet(key, val) ==
    /\ atomicTx.state = "open"
    /\ Len(atomicTx.buffer) < MaxBuffer
    /\ atomicTx' = [atomicTx EXCEPT
                       !.buffer = TxSet([buffer |-> @], key, val).buffer]
    /\ resp' = Resp("Tx.Set", <<>>, 0, NilHash)
    /\ UNCHANGED <<tree, maxVersions, appVars, commitCall, readCall, config, emit, diffStore, gateway>>

AtomicDelete(key) ==
    /\ atomicTx.state = "open"
    /\ Len(atomicTx.buffer) < MaxBuffer
    /\ atomicTx' = [atomicTx EXCEPT
                       !.buffer = TxDelete([buffer |-> @], key).buffer]
    /\ resp' = Resp("Tx.Delete", <<>>, 0, NilHash)
    /\ UNCHANGED <<tree, maxVersions, appVars, commitCall, readCall, config, emit, diffStore, gateway>>

AtomicCommit ==
    /\ atomicTx.state = "open"
    /\ tree' = TxCommit([buffer |-> atomicTx.buffer], tree)
    /\ atomicTx' = [atomicTx EXCEPT !.state = "committed"]
    /\ resp' = Resp("Tx.Commit", <<>>, 0, NilHash)
    /\ UNCHANGED <<maxVersions, appVars, commitCall, readCall, config, emit, diffStore, gateway>>

\* A Rollback that merges the buffer into the parent.
AtomicRollbackMerges ==
    /\ atomicTx.state = "open"
    /\ tree' = TxCommit([buffer |-> atomicTx.buffer], tree)
    /\ atomicTx' = [atomicTx EXCEPT !.state = "rolledback"]
    /\ resp' = Resp("Tx.Rollback", <<>>, 0, NilHash)
    /\ UNCHANGED <<maxVersions, appVars, commitCall, readCall, config, emit, diffStore, gateway>>

AtomicRollback ==
    /\ atomicTx.state = "open"
    /\ atomicTx' = [atomicTx EXCEPT
                       !.state = "rolledback",
                       !.buffer = TxRollback([buffer |-> @]).buffer]
    /\ resp' = [Resp("Tx.Rollback", <<>>, 0, NilHash) EXCEPT
                   !.arg = Len(atomicTx.buffer)]
    /\ UNCHANGED <<tree, maxVersions, appVars, commitCall, readCall, config, emit, diffStore, gateway>>

TxNext ==
    \/ \E key \in Keys, val \in Values : ParentSet(key, val)
    \/ AtomicBeginTx
    \/ \E key \in Keys, val \in Values : AtomicSet(key, val)
    \/ \E key \in Keys : AtomicDelete(key)
    \/ AtomicCommit
    \/ AtomicRollback

TxInit == Init /\ features = {}

TxSpec == TxInit /\ [][TxNext]_vars

(***************************************************************************)
(* The store driven directly through its interface.                        *)
(***************************************************************************)
StoreSet(key, val) ==
    /\ tree' = Set(tree, key, val)
    /\ resp' = Resp("Set", <<>>, 0, NilHash)
    /\ UNCHANGED <<maxVersions, appVars, callVars, config, emit, diffStore, gateway>>

StoreDelete(key) ==
    /\ tree' = Delete(tree, key)
    /\ resp' = Resp("Delete", <<>>, 0, NilHash)
    /\ UNCHANGED <<maxVersions, appVars, callVars, config, emit, diffStore, gateway>>

StoreSaveVersion(engineFails) ==
    /\ tree.version < MaxVersion
    /\ LET r == SaveVersion(tree, engineFails)
       IN  /\ tree' = r.tree
           /\ resp' = Resp("SaveVersion", r.err, r.version, r.hash)
    /\ UNCHANGED <<maxVersions, appVars, callVars, config, emit, diffStore, gateway>>

StorePrune(engineFails) ==
    /\ LET r == Prune(tree, maxVersions, engineFails)
       IN  /\ tree' = r.tree
           /\ resp' = Resp("Prune", r.err, 0, NilHash)
    /\ UNCHANGED <<maxVersions, appVars, callVars, config, emit, diffStore, gateway>>

StoreNext ==
    \/ \E key \in Keys, val \in Values : StoreSet(key, val)
    \/ \E key \in Keys : StoreDelete(key)
    \/ \E engineFails \in BOOLEAN : StoreSaveVersion(engineFails)
    \/ \E engineFails \in BOOLEAN : StorePrune(engineFails)

StoreInit == Init /\ features = {}

StoreSpec == StoreInit /\ [][StoreNext]_vars

(***************************************************************************)
(* EthTxHandler.ProcessTx, applied to a state over the store.  A           *)
(* transaction is given by what its decoding yields: whether the           *)
(* MessageTx unmarshals, its From address (caller), the origin its         *)
(* signature gave, what the wrapped Ethereum transaction is, and what the  *)
(* VM and the registry do when they are reached.  An error is the          *)
(* sequence of its message's parts, the text it begins with first.  A      *)
(* contract the VM creates and a registry entry are writes to the store.   *)
(***************************************************************************)
DeployEvm == "DeployEvm"
Addresses == {"alice", "bob"}
EthTxKinds == {"undecodable", "deploy", "call", "deployNegative",
               "callNegative"}
VMOutcomes == {"ok", "initErr", "vmErr", "registerErr"}

EthTxInputs ==
    [featureEnabled : BOOLEAN, unmarshals : BOOLEAN, caller : Addresses,
     origin : Addresses, ethTx : EthTxKinds, vm : VMOutcomes]

HandlerResult(err, info, calls, t) ==
    [err |-> err, info |-> info, calls |-> calls, tree |-> t]

\* ProcessTx from h.Manager.InitVM on.
EthTxExecute(t, in, info) ==
    LET initVM == <<Called("Manager", "InitVM")>>
        created == Set(t, "a", "x")
    IN  IF in.vm = "initErr"
        THEN HandlerResult(<<"InitVM failed">>, info, initVM, t)
        ELSE IF info = DeployEvm
        THEN IF in.vm = "vmErr"
             THEN HandlerResult(<<"failed to create contract">>, info,
                                initVM \o <<Called("vm", "Create")>>, t)
             ELSE IF in.vm = "registerErr"
             THEN HandlerResult(<<"failed to register contract">>, info,
                                initVM \o <<Called("vm", "Create"),
                                            Called("registry", "Register")>>,
                                created)
             ELSE HandlerResult(<<>>, info,
                                initVM \o <<Called("vm", "Create"),
                                            Called("registry", "Register")>>,
                                Set(created, "b", "x"))
        ELSE IF in.vm = "vmErr"
             THEN HandlerResult(<<"contract call failed">>, info,
                                initVM \o <<Called("vm", "Call")>>, t)
             ELSE HandlerResult(<<>>, info, initVM \o <<Called("vm", "Call")>>,
                                Set(t, "a", "y"))

\* A ProcessTx that compares origin and caller only when it is about to
\* execute the transaction.
EthTxHandlerChecksOriginOnDeliver(t, in, isCheckTx) ==
    LET info == IF in.ethTx \in {"deploy", "deployNegative"}
                THEN DeployEvm ELSE CallEVM
    IN  IF ~in.featureEnabled
        THEN HandlerResult(<<"ethereum transactions feature not enabled">>,
                           "", <<>>, t)
        ELSE IF ~in.unmarshals
        THEN HandlerResult(<<"proto: cannot unmarshal">>, "", <<>>, t)
        ELSE IF in.ethTx = "undecodable"
        THEN HandlerResult(<<"rlp: cannot decode">>, "", <<>>, t)
        ELSE IF in.ethTx \in {"deployNegative", "callNegative"}
        THEN HandlerResult(<<"tx value can't be negative">>, info, <<>>, t)
        ELSE IF isCheckTx
        THEN HandlerResult(<<>>, info, <<>>, t)
        ELSE IF in.caller # in.origin
        THEN HandlerResult(<<"Origin doesn't match caller", in.origin,
                             in.caller>>, info, <<>>, t)
        ELSE EthTxExecute(t, in, info)

EthTxHandlerProcessTx(t, in, isCheckTx) ==
    LET info == IF in.ethTx \in {"deploy", "deployNegative"}
                THEN DeployEvm ELSE CallEVM
    IN  IF ~in.featureEnabled
        THEN HandlerResult(<<"ethereum transactions feature not enabled">>,
                           "", <<>>, t)
        ELSE IF ~in.unmarshals
        THEN HandlerResult(<<"proto: cannot unmarshal">>, "", <<>>, t)
        ELSE IF in.caller # in.origin
        THEN HandlerResult(<<"Origin doesn't match caller", in.origin,
                             in.caller>>, "", <<>>, t)
        ELSE IF in.ethTx = "undecodable"
        THEN HandlerResult(<<"rlp: cannot decode">>, "", <<>>, t)
        ELSE IF in.ethTx \in {"deployNegative", "callNegative"}
        THEN HandlerResult(<<"tx value can't be negative">>, info, <<>>, t)
        ELSE IF isCheckTx
        THEN HandlerResult(<<>>, info, <<>>, t)
        ELSE EthTxExecute(t, in, info)

EthProcessTx(in, isCheckTx) ==
    /\ LET r == EthTxHandlerProcessTx(tree, in, isCheckTx)
       IN  /\ tree' = r.tree
           /\ resp' = [Resp("EthTxHandler.ProcessTx", r.err, 0, NilHash)
                          EXCEPT !.arg = [in |-> in, isCheckTx |-> isCheckTx],
                                 !.code = IF r.err = <<>> THEN 0 ELSE 1,
                                 !.view = r.info,
                                 !.calls = r.calls]
    /\ UNCHANGED <<maxVersions, appVars, callVars, config, emit, diffStore,
                   gateway>>

\* Between two transactions the store may lose a key.
HandlerNext ==
    \/ \E in \in EthTxInputs, isCheckTx \in BOOLEAN : EthProcessTx(in, isCheckTx)
    \/ \E key \in Keys : StoreDelete(key)

HandlerSpec == StoreInit /\ [][HandlerNext]_vars

(***************************************************************************)
(* ReplayApplication: the application built to replay blocks up to a given *)
(* block.  What Store.GetSnapshotAt answers for each version is an input   *)
(* of the call: a snapshot, an error, or neither.                          *)
(***************************************************************************)
SnapshotOutcomes == {"ok", "err", "nil"}

\* a.Store.GetSnapshotAt(version), where snapshots[v] is what the store
\* answers for version v.
GetSnapshotAt(snapshots, version) ==
    CASE snapshots[version] = "ok" ->
             [snapshot |-> [version |-> version], err |-> <<>>]
      [] snapshots[version] = "err" ->
             [snapshot |-> NoSnapshot, err |-> <<"no such version">>]
      [] OTHER -> [snapshot |-> NoSnapshot, err |-> <<>>]

\* The loop of ReplayApplication, before it tests its condition: its
\* post-statement has run after every call of GetSnapshotAt, the one that
\* found a snapshot included.
RECURSIVE FindSnapshot(_, _, _)
FindSnapshot(snapshots, startVersion, got) ==
    IF (got.snapshot = NoSnapshot \/ got.err # <<>>) /\ startVersion > 0
    THEN FindSnapshot(snapshots, startVersion - 1,
                      GetSnapshotAt(snapshots, startVersion))
    ELSE [startVersion |-> startVersion, snapshot |-> got.snapshot]

\* No application.
NoApplication == [snapshot |-> NoSnapshot, version |-> -1]

\* store.NewSplitStore(snapshot, store.NewMemStore(), version)
NewSplitStore(snapshot, version) == [snapshot |-> snapshot, version |-> version]

ReplayApplication(snapshots, blockNumber, factoryFails) ==
    LET looped == FindSnapshot(snapshots, blockNumber - 1,
                               [snapshot |-> NoSnapshot, err |-> <<>>])
    IN  IF blockNumber - 1 < 0
        THEN [app |-> NoApplication, startVersion |-> 0,
              err |-> <<"invalid block number">>]
        ELSE IF looped.startVersion = 0
        THEN [app |-> NoApplication, startVersion |-> 0,
              err |-> <<"no saved version for height">>]
        ELSE IF factoryFails
        THEN [app |-> NoApplication, startVersion |-> 0,
              err |-> <<"TxHandlerFactory.TxHandler failed">>]
        ELSE [app |-> NewSplitStore(looped.snapshot, looped.startVersion - 1),
              startVersion |-> looped.startVersion, err |-> <<>>]

\* A call of ReplayApplication: it reads the application and changes
\* nothing of it.
Replay(snapshots, blockNumber, factoryFails) ==
    LET r == ReplayApplication(snapshots, blockNumber, factoryFails)
    IN  /\ resp' = [Resp("ReplayApplication", r.err, r.startVersion, NilHash)
                       EXCEPT !.arg = [blockNumber |-> blockNumber,
                                       snapshots |-> snapshots,
                                       factoryFails |-> factoryFails,
                                       app |-> r.app]]
        /\ UNCHANGED <<tree, maxVersions, appVars, callVars, config, emit,
                       diffStore, gateway>>

ReplayNext ==
    \E snapshots \in [1..MaxVersion -> SnapshotOutcomes],
       blockNumber \in 0..(MaxVersion + 1), factoryFails \in BOOLEAN :
       Replay(snapshots, blockNumber, factoryFails)

ReplaySpec == StoreInit /\ [][ReplayNext]_vars

(***************************************************************************)
(* The transfer gateway contract.  Its methods are called one transaction  *)
(* at a time; a method that returns an error fails its transaction, whose  *)
(* writes are then discarded, so the contract's store is as before the     *)
(* call.  The oracles are the addresses Init granted the submit-events and *)
(* sign-withdrawals permissions to.  What the address mapper and the       *)
(* ERC721 contract do is an input of the call.                             *)
(***************************************************************************)
Oracles == {"oracle1", "oracle2"}
Signatures == {"sig1", "sig2"}
NilBytes == "nil"
NilAddress == "nil"

ErrNotAuthorized == <<"not authorized">>
ErrInvalidRequest == <<"invalid request">>
ErrPendingWithdrawal == <<"pending withdrawal already exists">>
ErrMissingWithdrawalReceipt == <<"TG", "missing withdrawal receipt">>
ErrWithdrawalReceiptSigned == <<"TG", "withdrawal receipt already signed">>
ErrInvalidEventBatch == <<"invalid event batch">>

\* account.WithdrawalReceipt == nil
NilWithdrawalReceipt == [isNil |-> TRUE]

WithdrawalReceipt(owner, nonce) ==
    [isNil |-> FALSE, TokenOwner |-> owner, WithdrawalNonce |-> nonce,
     OracleSignature |-> NilBytes]

\* loadAccount: the stored account, or a zero Account when none is stored.
loadAccount(g, owner) ==
    IF owner \in DOMAIN g.accounts
    THEN g.accounts[owner]
    ELSE [WithdrawalReceipt |-> NilWithdrawalReceipt, WithdrawalNonce |-> 0]

saveAccount(g, owner, account) ==
    [g EXCEPT !.accounts = [o \in DOMAIN g.accounts \cup {owner} |->
                               IF o = owner THEN account ELSE g.accounts[o]]]

\* The result of a contract method: its error and what it has written.
Returns(err, g) == [err |-> err, gateway |-> g]

\* The store after the transaction that called the method: the writes of a
\* method that returned an error are discarded with its transaction.
AfterTx(g, r) == IF r.err = <<>> THEN r.gateway ELSE g

addTokenWithdrawer(g, owner) ==
    IF \E i \in DOMAIN g.TokenWithdrawers : g.TokenWithdrawers[i] = owner
    THEN Returns(<<"TG", "account already has a pending withdrawal">>, g)
    ELSE Returns(<<>>, [g EXCEPT !.TokenWithdrawers = Append(@, owner)])

\* The list with its last element moved into place i.
RemoveAt(list, i) ==
    [j \in 1..(Len(list) - 1) |-> IF j = i THEN list[Len(list)] ELSE list[j]]

removeTokenWithdrawer(g, owner) ==
    IF \E i \in DOMAIN g.TokenWithdrawers : g.TokenWithdrawers[i] = owner
    THEN LET i == CHOOSE j \in DOMAIN g.TokenWithdrawers :
                      /\ g.TokenWithdrawers[j] = owner
                      /\ \A k \in 1..(j - 1) : g.TokenWithdrawers[k] # owner
         IN  Returns(<<>>, [g EXCEPT !.TokenWithdrawers = RemoveAt(@, i)])
    ELSE Returns(<<"TG", "account has no pending withdrawal">>, g)

\* What the address mapper and the token contract do in a WithdrawERC721.
WithdrawOutcomes == {"ok", "noMapping", "transferFailed", "notDeposited"}

\* wellFormed: req.TokenId and req.TokenContract are not nil.
WithdrawERC721(g, sender, wellFormed, outcome) ==
    LET account == loadAccount(g, sender)
        withReceipt ==
            [WithdrawalReceipt |->
                 WithdrawalReceipt(sender, account.WithdrawalNonce),
             WithdrawalNonce |-> account.WithdrawalNonce + 1]
    IN  IF ~wellFormed
        THEN Returns(ErrInvalidRequest, g)
        ELSE IF ~account.WithdrawalReceipt.isNil
        THEN Returns(ErrPendingWithdrawal, g)
        ELSE IF outcome = "noMapping"
        THEN Returns(<<"no mapping">>, g)
        ELSE IF outcome = "transferFailed"
        THEN Returns(<<"failed to call ERC721 safeTransferFrom">>, g)
        ELSE IF outcome = "notDeposited"
        THEN Returns(<<"token hasn't been deposited to gateway">>, g)
        ELSE addTokenWithdrawer(saveAccount(g, sender, withReceipt), sender)

\* A ConfirmWithdrawalReceipt that signs whatever receipt it finds.
ConfirmWithdrawalReceiptOverwrites(g, caller, tokenOwner, sig) ==
    LET account == loadAccount(g, tokenOwner)
        signed == [account EXCEPT !.WithdrawalReceipt.OracleSignature = sig]
    IN  IF caller \notin Oracles
        THEN Returns(ErrNotAuthorized, g)
        ELSE IF tokenOwner = NilAddress \/ sig = NilBytes
        THEN Returns(ErrInvalidRequest, g)
        ELSE IF account.WithdrawalReceipt.isNil
        THEN Returns(ErrMissingWithdrawalReceipt, g)
        ELSE Returns(<<>>, saveAccount(g, tokenOwner, signed))

ConfirmWithdrawalReceipt(g, caller, tokenOwner, sig) ==
    LET account == loadAccount(g, tokenOwner)
        signed == [account EXCEPT !.WithdrawalReceipt.OracleSignature = sig]
    IN  IF caller \notin Oracles
        THEN Returns(ErrNotAuthorized, g)
        ELSE IF tokenOwner = NilAddress \/ sig = NilBytes
        THEN Returns(ErrInvalidRequest, g)
        ELSE IF account.WithdrawalReceipt.isNil
        THEN Returns(ErrMissingWithdrawalReceipt, g)
        ELSE IF account.WithdrawalReceipt.OracleSignature # NilBytes
        THEN Returns(ErrWithdrawalReceiptSigned, g)
        ELSE Returns(<<>>, saveAccount(g, tokenOwner, signed))

\* completeTokenWithdraw for a well-formed ERC721 withdrawal whose owner
\* the address mapper resolves: what it has written stays written when it
\* returns an error, for ProcessEventBatch then goes on to the next event.
completeTokenWithdraw(g, owner) ==
    LET account == loadAccount(g, owner)
        cleared == [account EXCEPT !.WithdrawalReceipt = NilWithdrawalReceipt]
    IN  IF account.WithdrawalReceipt.isNil
        THEN Returns(<<"no pending withdrawal found">>, g)
        ELSE removeTokenWithdrawer(saveAccount(g, owner, cleared), owner)

\* The events of a batch: a deposit that is processed, an event that fails
\* or has no payload, or the withdrawal of an owner.
Payloads == {"deposit", "depositFails"} \cup Addresses

Event(block, payload) == [EthBlock |-> block, Payload |-> payload]

Events == {Event(block, payload) : block \in 1..MaxEthBlock, payload \in Payloads}

\* The batches an oracle submits, of one or two events.
Batches == {<<e>> : e \in Events} \cup {<<e1, e2>> : e1 \in Events, e2 \in Events}

\* The loop of ProcessEventBatch from event i on: acc is [gateway,
\* blockCount, lastEthBlock, err].
RECURSIVE ProcessEvents(_, _, _, _)
ProcessEvents(events, i, state, acc) ==
    IF i > Len(events)
    THEN acc
    ELSE LET ev == events[i]
             next(a) == ProcessEvents(events, i + 1, state, a)
             counted(a) == IF ev.EthBlock > a.lastEthBlock
                           THEN [a EXCEPT !.blockCount = @ + 1,
                                          !.lastEthBlock = ev.EthBlock]
                           ELSE a
         IN  IF ev.EthBlock < acc.lastEthBlock
             THEN [acc EXCEPT !.err = ErrInvalidEventBatch]
             ELSE IF ev.EthBlock <= state.LastEthBlock
             THEN next(acc)
             ELSE IF ev.Payload = "deposit"
             THEN next(counted(acc))
             ELSE IF ev.Payload = "depositFails"
             THEN next(acc)
             ELSE LET r == completeTokenWithdraw(acc.gateway, ev.Payload)
                  IN  IF r.err # <<>>
                      THEN next([acc EXCEPT !.gateway = r.gateway])
                      ELSE next(counted([acc EXCEPT !.gateway = r.gateway]))

\* The state ProcessEventBatch saves at its end is the one it loaded at its
\* start with the new LastEthBlock: the list of token withdrawers in it is
\* the list of before the batch, whatever removeTokenWithdrawer saved
\* meanwhile.
ProcessEventBatch(g, caller, events) ==
    LET done == ProcessEvents(events, 1, g,
                              [gateway |-> g, blockCount |-> 0,
                               lastEthBlock |-> 0, err |-> <<>>])
    IN  IF caller \notin Oracles
        THEN Returns(ErrNotAuthorized, g)
        ELSE IF done.err # <<>>
        THEN Returns(done.err, g)
        ELSE IF done.blockCount = 0
        THEN Returns(<<"no new events found in the batch">>, g)
        ELSE Returns(<<>>, [done.gateway EXCEPT
                               !.LastEthBlock = done.lastEthBlock,
                               !.TokenWithdrawers = g.TokenWithdrawers])

\* What a call of a method of the contract answers.
Answer(method, caller, owner, sig, wellFormed, outcome, r) ==
    [Resp(method, r.err, 0, NilHash) EXCEPT
        !.arg = [caller |-> caller, owner |-> owner, sig |-> sig,
                 wellFormed |-> wellFormed, outcome |-> outcome]]

\* Each method is called in a transaction of its own.
GatewayWithdrawERC721(sender, wellFormed, outcome) ==
    LET r == WithdrawERC721(gateway, sender, wellFormed, outcome)
    IN  /\ \/ loadAccount(gateway, sender).WithdrawalNonce < MaxWithdrawals
           \/ ~loadAccount(gateway, sender).WithdrawalReceipt.isNil
        /\ gateway' = AfterTx(gateway, r)
        /\ resp' = Answer("WithdrawERC721", sender, sender, NilBytes,
                          wellFormed, outcome, r)
        /\ UNCHANGED <<tree, maxVersions, appVars, callVars, config, emit,
                       diffStore>>

GatewayConfirmWithdrawalReceipt(caller, tokenOwner, sig) ==
    LET r == ConfirmWithdrawalReceipt(gateway, caller, tokenOwner, sig)
    IN  /\ gateway' = AfterTx(gateway, r)
        /\ resp' = Answer("ConfirmWithdrawalReceipt", caller, tokenOwner,
                          sig, tokenOwner # NilAddress /\ sig # NilBytes,
                          "ok", r)
        /\ UNCHANGED <<tree, maxVersions, appVars, callVars, config, emit,
                       diffStore>>

GatewayProcessEventBatch(caller, events) ==
    LET r == ProcessEventBatch(gateway, caller, events)
    IN  /\ gateway' = AfterTx(gateway, r)
        /\ resp' = Answer("ProcessEventBatch", caller, NilAddress,
                          NilBytes, TRUE, "ok", r)
        /\ UNCHANGED <<tree, maxVersions, appVars, callVars, config, emit,
                       diffStore>>

GatewayNext ==
    \/ \E sender \in Addresses, wellFormed \in BOOLEAN,
          outcome \in WithdrawOutcomes :
          GatewayWithdrawERC721(sender, wellFormed, outcome)
    \/ \E caller \in Oracles \cup Addresses,
          tokenOwner \in Addresses \cup {NilAddress},
          sig \in Signatures \cup {NilBytes} :
          GatewayConfirmWithdrawalReceipt(caller, tokenOwner, sig)
    \/ \E caller \in {"oracle1", "alice"}, events \in Batches :
          GatewayProcessEventBatch(caller, events)

GatewaySpec == StoreInit /\ [][GatewayNext]_vars

(***************************************************************************)
(* The cache-tunable store variant beside the baseline store, both driven  *)
(* by the same calls.  The variant keeps its working set in mem and every  *)
(* saved version in saved, with a mark for those written to disk: a save   *)
(* is written through when the disk-write frequency is 0 or divides the    *)
(* new version; Prune spares the versions the version-retention frequency  *)
(* divides; the cache grows with every write up to its ceiling and falls   *)
(* back to its floor at a save.                                            *)
(***************************************************************************)
CacheRanges == {<<1, 0>>, <<1, 2>>}

\* The writes the two stores are driven with.
DiffWrites == {<<"a", "x">>, <<"a", "y">>, <<"b", "x">>}

NewDiffIavlStore(requested, saveFrequency, versionFrequency, minCache, maxCache) ==
    [opened |-> TRUE,
     mem |-> EmptyMapping,
     saved |-> <<>>,
     version |-> 0,
     maxVersions |-> IF requested < 2 THEN 2 ELSE requested,
     saveFrequency |-> saveFrequency,
     versionFrequency |-> versionFrequency,
     minCache |-> minCache,
     maxCache |-> maxCache,
     cache |-> minCache]

DiffGet(d, key) == d.mem[key]

DiffHas(d, key) == DiffGet(d, key) # Absent

DiffHash(d) ==
    IF d.version > 0 THEN HashOf(d.saved[d.version].data) ELSE NilHash

DiffVersion(d) == d.version

\* The cache after a write: one entry more, up to the ceiling.
Grown(d) == IF d.cache < d.maxCache THEN d.cache + 1 ELSE d.cache

DiffSet(d, key, val) ==
    [d EXCEPT !.mem = [@ EXCEPT ![key] = val], !.cache = Grown(d)]

DiffDelete(d, key) ==
    [d EXCEPT !.mem = [@ EXCEPT ![key] = Absent], !.cache = Grown(d)]

DiffSaveVersion(d) ==
    LET version == d.version + 1
        onDisk == d.saveFrequency = 0 \/ version % d.saveFrequency = 0
    IN  [d EXCEPT !.saved = [v \in DOMAIN d.saved \cup {version} |->
                                IF v = version
                                THEN [data |-> d.mem, onDisk |-> onDisk]
                                ELSE d.saved[v]],
                  !.version = version,
                  !.cache = d.minCache]

DiffPrune(d) ==
    LET oldVer == d.version - d.maxVersions
        retained == d.versionFrequency > 0 /\ oldVer % d.versionFrequency = 0
    IN  IF oldVer < 1 \/ oldVer \notin DOMAIN d.saved \/ retained
        THEN d
        ELSE [d EXCEPT !.saved = [v \in DOMAIN d.saved \ {oldVer} |->
                                     d.saved[v]]]

\* What a caller of the baseline store and of the variant can observe.
BaselineObserved(t) ==
    [Get |-> [k \in Keys |-> Get(t, k)], Has |-> [k \in Keys |-> Has(t, k)],
     Hash |-> Hash(t), Version |-> Version(t)]

DiffObserved(d) ==
    [Get |-> [k \in Keys |-> DiffGet(d, k)],
     Has |-> [k \in Keys |-> DiffHas(d, k)],
     Hash |-> DiffHash(d), Version |-> DiffVersion(d)]

BothOpen(saveFrequency, versionFrequency, cacheRange) ==
    /\ ~diffStore.opened
    /\ diffStore' = NewDiffIavlStore(maxVersions, saveFrequency,
                                     versionFrequency, cacheRange[1],
                                     cacheRange[2])
    /\ resp' = Resp("NewDiffIavlStore", <<>>, 0, NilHash)
    /\ UNCHANGED <<tree, maxVersions, appVars, callVars, config, emit, gateway>>

BothSet(key, val) ==
    /\ diffStore.opened
    /\ tree' = Set(tree, key, val)
    /\ diffStore' = DiffSet(diffStore, key, val)
    /\ resp' = Resp("Set", <<>>, 0, NilHash)
    /\ UNCHANGED <<maxVersions, appVars, callVars, config, emit, gateway>>

BothDelete(key) ==
    /\ diffStore.opened
    /\ tree' = Delete(tree, key)
    /\ diffStore' = DiffDelete(diffStore, key)
    /\ resp' = Resp("Delete", <<>>, 0, NilHash)
    /\ UNCHANGED <<maxVersions, appVars, callVars, config, emit, gateway>>

BothSaveVersion ==
    /\ diffStore.opened
    /\ tree.version < MaxVersion
    /\ LET r == SaveVersion(tree, FALSE)
       IN  /\ tree' = r.tree
           /\ diffStore' = DiffSaveVersion(diffStore)
           /\ resp' = Resp("SaveVersion", r.err, r.version, r.hash)
    /\ UNCHANGED <<maxVersions, appVars, callVars, config, emit, gateway>>

BothPrune ==
    /\ diffStore.opened
    /\ LET r == Prune(tree, maxVersions, FALSE)
       IN  /\ tree' = r.tree
           /\ diffStore' = DiffPrune(diffStore)
           /\ resp' = Resp("Prune", r.err, 0, NilHash)
    /\ UNCHANGED <<maxVersions, appVars, callVars, config, emit, gateway>>

DiffNext ==
    \/ \E saveFrequency \in 0..MaxFrequency,
          versionFrequency \in 0..MaxFrequency, cacheRange \in CacheRanges :
          BothOpen(saveFrequency, versionFrequency, cacheRange)
    \/ \E write \in DiffWrites : BothSet(write[1], write[2])
    \/ \E key \in Keys : BothDelete(key)
    \/ BothSaveVersion
    \/ BothPrune

DiffSpec == StoreInit /\ [][DiffNext]_vars

(***************************************************************************)
(* Range on a store whose keys are byte strings.                           *)
(***************************************************************************)
\* The prefixes Range is called with: nil and every byte string of up to
\* MaxPrefixLen bytes.
RECURSIVE ByteStrings(_)
ByteStrings(n) ==
    IF n = 0
    THEN {<<>>}
    ELSE LET shorter == ByteStrings(n - 1)
         IN  shorter \cup {Append(p, b) : p \in shorter, b \in RangeBytes}

Prefixes == {NilSlice} \cup {Slice(p) : p \in ByteStrings(MaxPrefixLen)}

\* How the engine answers a range: in full, or with an error after having
\* delivered one key at most.
EngineRangeOutcomes == {-1, 1}

\* The value stored under a key: keys of different lengths hold different
\* values.
RangeValue(key) == IF Len(key) % 2 = 0 THEN "x" ELSE "y"

RangeStoreSet(key) ==
    /\ tree' = Set(tree, key, RangeValue(key))
    /\ resp' = Resp("Set", <<>>, 0, NilHash)
    /\ UNCHANGED <<maxVersions, appVars, callVars, config, emit, diffStore, gateway>>

RangeStoreDelete(key) ==
    /\ tree' = Delete(tree, key)
    /\ resp' = Resp("Delete", <<>>, 0, NilHash)
    /\ UNCHANGED <<maxVersions, appVars, callVars, config, emit, diffStore, gateway>>

\* Range(prefix): arg is the prefix, view the list returned, calls what was
\* logged, code the number of entries after which the engine reported an
\* error (-1 when it reported none or was not called).
StoreRange(prefix, failsAfter) ==
    /\ LET r == Range(tree, prefix, failsAfter)
       IN  resp' = [Resp("Range",
                         IF r.panic THEN <<"panic", "index out of range">>
                                    ELSE <<>>,
                         0, NilHash)
                       EXCEPT !.arg = prefix, !.view = r.ret,
                              !.calls = r.log,
                              !.code = IF r.panic THEN -1 ELSE failsAfter]
    /\ UNCHANGED <<tree, maxVersions, appVars, callVars, config, emit, diffStore, gateway>>

RangeNext ==
    \/ \E key \in RangeKeys : RangeStoreSet(key)
    \/ \E key \in RangeKeys : RangeStoreDelete(key)
    \/ \E prefix \in Prefixes, failsAfter \in EngineRangeOutcomes :
          StoreRange(prefix, failsAfter)

RangeInit ==
    /\ tree = [NewIAVLStore(0).tree EXCEPT
                  !.root = [key \in RangeKeys |-> Absent]]
    /\ maxVersions = NewIAVLStore(0).maxVersions
    /\ lastBlockHeader = Header(0)
    /\ curBlockHeader = Header(0)
    /\ curBlockHash = <<>>
    /\ childTxRefs = <<>>
    /\ features = {}
    /\ currentReceipt = NoReceipt
    /\ committedReceipts = {}
    /\ pendingEvents = {}
    /\ committedEvents = {}
    /\ status = "running"
    /\ phase = "idle"
    /\ delivered = <<>>
    /\ deliverCall = NoCall
    /\ checkCall = NoCall
    /\ commitCall = NoCommit
    /\ readCall = NoRead
    /\ atomicTx = NoTx
    /\ config = NoCachedConfig
    /\ emit = NoEmission
    /\ diffStore = NoDiffStore
    /\ gateway = NoGateway
    /\ resp = NoResp

RangeSpec == RangeInit /\ [][RangeNext]_vars

(***************************************************************************)
(* Properties of the block lifecycle                                       *)
(***************************************************************************)
MismatchErrs == {<<"app height doesn't match BeginBlock height">>,
                 <<"app height doesn't match EndBlock height">>}

TxByHash(h) == CHOOSE tx \in Txs : tx.hash = h

Last(seq) == seq[Len(seq)]

\* The contents of the latest saved version.
Committed(t) == IF t.version > 0 THEN t.versions[t.version] ELSE EmptyMapping

\* C1: BeginBlock(h) and EndBlock(h) panic whenever h differs from
\* Store.Version() + 1, and then change neither the store nor the current
\* block header and hash; they get past the height check only when
\* h = Store.Version() + 1.
C1_HeightMismatchFatal ==
    [][resp'.op \in {"BeginBlock", "EndBlock"} =>
          IF resp'.arg # Version(tree) + 1
          THEN /\ status' = "panicked"
               /\ resp'.err \in MismatchErrs
               /\ tree' = tree
               /\ curBlockHeader' = curBlockHeader
               /\ curBlockHash' = curBlockHash
          ELSE resp'.err \notin MismatchErrs]_vars

\* BeginBlock for an already committed height has stopped the node.
C1_Witness ==
    /\ status = "panicked"
    /\ resp.op = "BeginBlock"
    /\ Version(tree) = 2
    /\ resp.arg = 2
    /\ curBlockHeader = Header(2)

\* C2: a DeliverTx whose handler fails leaves the store as it was and
\* returns a non-zero code; a DeliverTx whose handler succeeds returns 0 and
\* commits exactly its writes, whatever was rejected before it in the block.
C2_FailedDeliverTxRolledBack ==
    [][resp'.op = "DeliverTx" =>
          LET code == Last(delivered')
              tx == TxByHash(resp'.arg)
          IN  /\ delivered' = Append(delivered, code)
              /\ resp'.code = code
              /\ IF tx.fails
                 THEN code # 0 /\ tree' = tree
                 ELSE /\ code = 0
                      /\ tree' = TxCommit(Stage(BeginTx, tx.writes), tree)]_vars

\* A rejected transaction that staged a write of "a" and a delete of "b" is
\* followed in the same block by one that commits its writes.
C2_Witness ==
    /\ resp.op = "DeliverTx"
    /\ delivered = <<1, 0>>
    /\ resp.arg = "t2"
    /\ tree.root = [a |-> Absent, b |-> "x"]

\* C3: no CheckTx, accepted or rejected, changes the store contents,
\* Version(), Hash(), the pending cross-reference list, or the committed
\* receipts and events.
C3_CheckTxChangesNothing ==
    [][resp'.op = "CheckTx" =>
          /\ tree' = tree
          /\ Version(tree') = Version(tree)
          /\ Hash(tree') = Hash(tree)
          /\ childTxRefs' = childTxRefs
          /\ committedReceipts' = committedReceipts
          /\ committedEvents' = committedEvents]_vars

\* A CheckTx has run the handler in the middle of a block that has already
\* recorded a cross-reference, a receipt and an event.
C3_Witness ==
    /\ resp.op = "CheckTx"
    /\ resp.view # <<>>
    /\ phase = "begun"
    /\ childTxRefs # <<>>
    /\ committedReceipts # {}
    /\ committedEvents # {}

\* C4: under every interleaving of a CheckTx with a DeliverTx, no step of
\* the CheckTx changes the store or the block state, and the DeliverTx ends
\* with the result code, store contents, committed receipts and
\* cross-references it produces when no CheckTx runs beside it.
C4_CheckTxNeverDisturbsDeliverTx ==
    [][/\ checkCall' # checkCall =>
             /\ tree' = tree
             /\ childTxRefs' = childTxRefs
             /\ committedReceipts' = committedReceipts
             /\ delivered' = delivered
       /\ (deliverCall.pc = "processed" /\ deliverCall'.pc = "idle") =>
             LET tx == TxByHash(deliverCall.tx)
                 r == ProcessTx(BeginTx, tx, FALSE)
                 receipt == ReceiptAfter(r, NoReceipt)
                 alone == IF FeatureEnabled(EvmTxReceiptsVersion3_1)
                          THEN deliverTx2(tx, r, receipt, r.events)
                          ELSE deliverTx(tx, r, receipt, r.events)
             IN  /\ resp'.code = alone.code
                 /\ tree' = alone.tree
                 /\ committedReceipts' = alone.committedReceipts
                 /\ childTxRefs' = alone.childTxRefs]_vars

\* C5: the store contents a CheckTx hands to the transaction handler are
\* those of the latest saved version.
C5_CheckTxSeesCommitted ==
    (resp.op = "CheckTx" /\ resp.view # <<>>) => resp.view = Committed(tree)

\* C6: a Commit that returns leaves Store.Version() exactly one higher than
\* before, also when no DeliverTx of the block succeeded.
C6_CommitAlwaysAdvances ==
    [][(resp'.op = "Commit" /\ status' = "running") =>
          /\ Version(tree') = Version(tree) + 1
          /\ VersionExists(tree', Version(tree'))
          /\ tree'.versions[Version(tree')] = tree.root
          /\ resp'.hash = Hash(tree')]_vars

\* Commit has returned for a block whose only DeliverTx calls were rejected
\* and that left the store as version 1 had it.
C6_Witness ==
    /\ resp.op = "Commit" /\ status = "running"
    /\ Version(tree) = 2
    /\ resp.arg # <<>>
    /\ \A i \in 1..Len(resp.arg) : resp.arg[i] # 0
    /\ tree.versions[2] = tree.versions[1]

Elems(seq) == {seq[i] : i \in 1..Len(seq)}

\* The errors the last call wrote to the log.
LoggedErrors == {c \in Elems(resp.calls) : c[1] = "log"}

\* C11: when the backing engine cannot persist, Commit panics with
\* SaveVersion's error, which names version Version() + 1; no hash is
\* returned, the store and its version counter are unchanged, the
\* cross-reference list and lastBlockHeader keep their values, and nothing
\* after SaveVersion (saving the cross-references, the block events, Prune)
\* is called.
C11_FailedSaveIsFatal ==
    [][(resp'.op = "Commit" /\ resp'.err # <<>>) =>
          /\ status' = "panicked"
          /\ resp'.err = <<"failed to save tree version", Version(tree) + 1>>
          /\ resp'.hash = NilHash
          /\ Version(tree') = Version(tree)
          /\ tree' = tree
          /\ childTxRefs' = childTxRefs
          /\ lastBlockHeader' = lastBlockHeader
          /\ resp'.calls = <<Called("Store", "SaveVersion")>>]_vars

\* The Commit of block 2 has panicked on SaveVersion with a cross-reference
\* pending: the store is at version 1 and lastBlockHeader is that of block 1.
C11_Witness ==
    /\ status = "panicked"
    /\ resp.op = "Commit"
    /\ resp.err = <<"failed to save tree version", 2>>
    /\ Version(tree) = 1
    /\ childTxRefs # <<>>
    /\ lastBlockHeader = Header(1)
    /\ curBlockHeader = Header(2)

\* C12: a Commit in which saving the cross-references, the emission of the
\* block events or Prune failed still returns, without panicking, the hash
\* of the version SaveVersion saved, and leaves that version in place as the
\* latest one.
C12_LoggedFailuresKeepCommit ==
    [][(resp'.op = "Commit" /\ LoggedErrors' # {}) =>
          /\ status' = "running"
          /\ resp'.err = <<>>
          /\ resp'.hash = HashOf(tree.root)
          /\ Version(tree') = Version(tree) + 1
          /\ VersionExists(tree', Version(tree'))
          /\ tree'.versions[Version(tree')] = tree.root
          /\ Hash(tree') = resp'.hash]_vars

\* The Commit of block 3 has returned although all three failed; version 1,
\* which Prune was to delete, is still there.
C12_Witness ==
    /\ resp.op = "Commit" /\ status = "running"
    /\ LoggedErrors = {Logged("Failed to save Tendermint -> EVM tx hash refs"),
                       Logged("Emit Block Event error"),
                       Logged("failed to prune app.db")}
    /\ Version(tree) = 3
    /\ VersionExists(tree, 1)
    /\ resp.hash = HashOf(tree.versions[3])

\* The transactions the last call opened, by the variable that holds them.
Opened == {c[1] : c \in {x \in Elems(resp.calls) : x[2] = "BeginTx"}}

\* The calls the last call made on the transaction held in name, in order.
CallsOn(name) == SelectSeq(resp.calls, LAMBDA c : c[1] = name)

\* C13: every transaction a lifecycle call that returns has opened over the
\* store got, after BeginTx, exactly one call ending it, Commit or Rollback,
\* and no call after that one.
C13_EveryTransactionEndedOnce ==
    status = "running" =>
        \A name \in Opened :
            LET cs == CallsOn(name)
            IN  /\ Len(cs) = 2
                /\ cs[1] = Called(name, "BeginTx")
                /\ cs[2] \in {Called(name, "Commit"), Called(name, "Rollback")}

\* C26: InitChain returns normally exactly when Store.Version() is 0 and the
\* initialization callback, if there is one, returned no error; otherwise
\* it panics.
C26_InitChainFatalUnlessGenesis ==
    [][(resp'.op = "InitChain" /\ resp' # resp) =>
          LET normal == status' = "running" /\ resp'.err = <<>>
          IN  /\ normal <=> /\ Version(tree) = 0
                            /\ Called("Init", "err") \notin Elems(resp'.calls)
              /\ ~normal => status' = "panicked" /\ resp'.err # <<>>]_vars

\* InitChain has panicked at height 1 because the callback returned an
\* error.
C26_Witness ==
    /\ resp.op = "InitChain"
    /\ status = "panicked"
    /\ Version(tree) = 0
    /\ resp.calls = <<Called("Init", "err")>>

\* C27: an EndBlock at the expected height whose validator manager is not
\* found returns normally with no validator update; one whose factory fails
\* otherwise, or whose manager's EndBlock fails, panics, and then the store
\* is as it was and the manager's transaction has not been committed.
C27_ValidatorFailuresFatal ==
    [][(resp'.op = "EndBlock" /\ resp' # resp /\ resp'.arg = height) =>
          LET called == Elems(resp'.calls)
          IN  /\ Called("CreateValidatorManager", "ErrNotFound") \in called =>
                    /\ status' = "running" /\ resp'.err = <<>>
                    /\ resp'.updates = <<>>
              /\ ( \/ Called("CreateValidatorManager", "err") \in called
                   \/ Called("validatorManager.EndBlock", "err") \in called ) =>
                    /\ status' = "panicked" /\ resp'.err # <<>>
                    /\ tree' = tree
                    /\ Called("storeTx@306", "Commit") \notin called]_vars

\* EndBlock has panicked because the factory of the validator manager
\* failed with an error other than not-found.
C27_Witness ==
    /\ resp.op = "EndBlock"
    /\ status = "panicked"
    /\ Called("CreateValidatorManager", "err") \in Elems(resp.calls)
    /\ delivered # <<>>

\* C28: the pending cross-reference list grows only in a DeliverTx that
\* returns code 0 and commits its transaction's writes, and a DeliverTx
\* that returns a non-zero code leaves the list as it was.
C28_RefsOnlyFromCommittedDeliverTx ==
    [][/\ Len(childTxRefs') > Len(childTxRefs) =>
             /\ resp'.op = "DeliverTx" /\ resp'.code = 0
             /\ tree' = TxCommit(Stage(BeginTx, TxByHash(resp'.arg).writes),
                                 tree)
       /\ (resp'.op = "DeliverTx" /\ resp'.code # 0) =>
             childTxRefs' = childTxRefs]_vars

\* C29: a Commit that returns has handed to the auxiliary store the pending
\* list as it stood, and leaves it empty whether or not the save succeeded;
\* a DeliverTx only appends to the end of the list, a record of its own
\* transaction, and no other call changes it: so what a Commit hands over
\* is what the DeliverTx calls since the previous Commit appended, in their
\* order, and nothing of it is handed over again.
C29_RefsHandedOverOnceThenCleared ==
    [][IF resp'.op = "Commit" /\ phase = "ended" /\ status' = "running"
       THEN /\ Called("EvmAuxStore", "SaveChildTxRefs") \in Elems(resp'.calls)
            /\ resp'.refs = childTxRefs
            /\ childTxRefs' = <<>>
       ELSE IF resp'.op = "DeliverTx"
            THEN \/ childTxRefs' = childTxRefs
                 \/ /\ Len(childTxRefs') = Len(childTxRefs) + 1
                    /\ SubSeq(childTxRefs', 1, Len(childTxRefs)) = childTxRefs
                    /\ Last(childTxRefs').ParentTxHash = resp'.arg
            ELSE childTxRefs' = childTxRefs]_vars

\* The Commit of block 2 has handed over one record although saving the
\* records failed, after the Commit of block 1 had handed over another.
C29_Witness ==
    /\ resp.op = "Commit" /\ status = "running"
    /\ Version(tree) = 2
    /\ Logged("Failed to save Tendermint -> EVM tx hash refs")
          \in Elems(resp.calls)
    /\ resp.refs = <<ChildTxRef("t1", "e1")>>
    /\ childTxRefs = <<>>

\* C30: once BeginBlock has counted configuration changes, every BeginBlock,
\* DeliverTx, CheckTx and EndBlock that hands a configuration to its handler
\* hands the one the store holds: never nil, and never the one from before
\* the change.
C30_NoStaleOrMissingConfig ==
    [][(/\ resp'.op \in {"BeginBlock", "DeliverTx", "CheckTx", "EndBlock"}
        /\ resp'.config # NoConfig)
       => resp'.config = config.stored]_vars

\* C31: the emission of block and transaction events is never awaited: when
\* Commit returns, the goroutine for its height has been started and has
\* emitted nothing yet; when DeliverTx returns, it has completed no emission
\* call itself; and a failed emission changes neither the result code of the
\* transaction nor the store.
C31_EmissionNeverAwaited ==
    [][/\ (resp'.op = "Commit" /\ status' = "running") =>
             /\ curBlockHeader.Height \in emit'.started
             /\ emit'.blocks = emit.blocks
       /\ resp'.op = "DeliverTx" =>
             /\ resp'.emitted = <<>>
             /\ (\E i \in DOMAIN resp'.emitted : resp'.emitted[i][3] = "err") =>
                   /\ resp'.code = 0
                   /\ tree' = TxCommit(ProcessTx(BeginTx, TxByHash(resp'.arg),
                                                 FALSE).storeTx, tree)
       /\ resp'.op = "EmitBlockTx" =>
             /\ tree' = tree
             /\ delivered' = delivered
             /\ status' = status]_vars

C34_CheckTxBeforeFirstBlockSkipsHandler ==
    [][(resp'.op = "CheckTx" /\ curBlockHeader.Height = 0) =>
          /\ resp'.code = 0 /\ resp'.err = <<>>
          /\ resp'.calls = <<>>
          /\ resp'.view = <<>>
          /\ resp'.config = NoConfig
          /\ UNCHANGED <<tree, currentReceipt, committedReceipts,
                         pendingEvents, committedEvents>>]_vars

\* A CheckTx has returned OK before any BeginBlock.
C34_Witness ==
    /\ resp.op = "CheckTx" /\ resp.code = 0
    /\ curBlockHeader = Header(0) /\ lastBlockHeader = Header(0)
    /\ resp.calls = <<>>
    /\ status = "running"

\* What GetCurrentReceipt() returns once the handler has run on the
\* transaction whose hash is h.
ReceiptFor(h) ==
    ReceiptAfter(ProcessTx(BeginTx, TxByHash(h), FALSE), currentReceipt)

\* C35: a DeliverTx whose processing fails leaves the store as it was; with
\* receipts version 3.1 enabled the receipt generated for it is committed
\* all the same, and on the older path no receipt is committed.
C35_FailedTxReceiptOnlyWithV31 ==
    [][(resp'.op = "DeliverTx" /\ resp'.code = 1) =>
          /\ tree' = tree
          /\ IF FeatureEnabled(EvmTxReceiptsVersion3_1)
             THEN committedReceipts' =
                      committedReceipts \cup
                      (IF ReceiptFor(resp'.arg) # NoReceipt
                       THEN {ReceiptFor(resp'.arg)} ELSE {})
             ELSE committedReceipts' = committedReceipts]_vars

\* With receipts version 3.1 enabled the failed transaction t3, the first
\* of its block, has left its receipt committed and the store unwritten.
C35_Witness ==
    /\ FeatureEnabled(EvmTxReceiptsVersion3_1)
    /\ resp.op = "DeliverTx" /\ resp.code = 1 /\ resp.arg = "t3"
    /\ delivered = <<1>>
    /\ committedReceipts = {ReceiptFor("t3")}
    /\ ReceiptFor("t3") # NoReceipt
    /\ tree.root = EmptyMapping

\* The account of the owner has a withdrawal receipt, and a signed one.
Pending(g, owner) == ~loadAccount(g, owner).WithdrawalReceipt.isNil

Signed(g, owner) ==
    /\ Pending(g, owner)
    /\ loadAccount(g, owner).WithdrawalReceipt.OracleSignature # NilBytes

\* C36 as stated: every ConfirmWithdrawalReceipt for an account whose
\* receipt is signed fails with ErrWithdrawalReceiptSigned and changes
\* nothing.
C36_SignedReceiptRejectsEveryAttempt ==
    [][(/\ resp'.op = "ConfirmWithdrawalReceipt"
        /\ Signed(gateway, resp'.arg.owner))
       => /\ resp'.err = ErrWithdrawalReceiptSigned
          /\ gateway' = gateway]_vars

\* C36 amended: a ConfirmWithdrawalReceipt succeeds only for a receipt that
\* is not signed yet, and then signs it and changes nothing else; one for a
\* signed receipt fails and changes nothing, with
\* ErrWithdrawalReceiptSigned when an oracle sent it well-formed; one from a
\* caller without the permission or for an account without receipt fails
\* and changes nothing; and no call of any method changes the signature of
\* a signed receipt.
C36_AtMostOneConfirmation ==
    [][/\ resp'.op = "ConfirmWithdrawalReceipt" =>
           LET call == resp'.arg
               before == loadAccount(gateway, call.owner)
           IN  /\ Signed(gateway, call.owner) =>
                      /\ resp'.err # <<>>
                      /\ gateway' = gateway
                      /\ (call.caller \in Oracles /\ call.wellFormed) =>
                             resp'.err = ErrWithdrawalReceiptSigned
               /\ (call.caller \notin Oracles \/ ~Pending(gateway, call.owner)) =>
                      /\ resp'.err # <<>>
                      /\ gateway' = gateway
               /\ resp'.err = <<>> =>
                      /\ Pending(gateway, call.owner)
                      /\ ~Signed(gateway, call.owner)
                      /\ call.sig \in Signatures
                      /\ loadAccount(gateway', call.owner) =
                             [before EXCEPT
                                 !.WithdrawalReceipt.OracleSignature = call.sig]
                      /\ \A o \in Addresses \ {call.owner} :
                             loadAccount(gateway', o) = loadAccount(gateway, o)
                      /\ gateway'.TokenWithdrawers = gateway.TokenWithdrawers
                      /\ gateway'.LastEthBlock = gateway.LastEthBlock
       /\ \A o \in Addresses :
              (/\ Signed(gateway, o)
               /\ Pending(gateway', o)
               /\ loadAccount(gateway', o).WithdrawalReceipt.WithdrawalNonce =
                      loadAccount(gateway, o).WithdrawalReceipt.WithdrawalNonce)
              => loadAccount(gateway', o).WithdrawalReceipt =
                     loadAccount(gateway, o).WithdrawalReceipt]_vars

\* A second oracle has tried to sign the receipt the first has signed.
C36_Witness ==
    /\ resp.op = "ConfirmWithdrawalReceipt"
    /\ resp.err = ErrWithdrawalReceiptSigned
    /\ resp.arg.caller = "oracle2"
    /\ resp.arg.owner = "alice"
    /\ resp.arg.sig = "sig2"
    /\ Signed(gateway, "alice")
    /\ loadAccount(gateway, "alice").WithdrawalReceipt.OracleSignature = "sig1"

\* C37: a well-formed WithdrawERC721 of an account that has a receipt fails
\* with ErrPendingWithdrawal and changes nothing; one of an account without
\* receipt succeeds when the address mapper and the token contract let it,
\* and leaves the receipt with the account's next nonce; a receipt is never
\* replaced, and goes away only in a ProcessEventBatch that succeeds.
C37_OnePendingWithdrawal ==
    [][/\ (resp'.op = "WithdrawERC721" /\ resp'.arg.wellFormed) =>
           LET owner == resp'.arg.owner
               before == loadAccount(gateway, owner)
               after == loadAccount(gateway', owner)
           IN  /\ Pending(gateway, owner) =>
                      /\ resp'.err = ErrPendingWithdrawal
                      /\ gateway' = gateway
               /\ resp'.err = <<>> =>
                      /\ ~Pending(gateway, owner)
                      /\ Pending(gateway', owner)
                      /\ after.WithdrawalReceipt.WithdrawalNonce =
                             before.WithdrawalNonce
                      /\ after.WithdrawalNonce = before.WithdrawalNonce + 1
               /\ (~Pending(gateway, owner) /\ resp'.arg.outcome = "ok") =>
                      resp'.err = <<>>
       /\ \A o \in Addresses :
              /\ (Pending(gateway, o) /\ ~Pending(gateway', o)) =>
                     (resp'.op = "ProcessEventBatch" /\ resp'.err = <<>>)
              /\ (Pending(gateway, o) /\ Pending(gateway', o)) =>
                     loadAccount(gateway', o).WithdrawalReceipt.WithdrawalNonce =
                         loadAccount(gateway, o).WithdrawalReceipt.WithdrawalNonce]_vars

\* C38: a BeginBlock(h) that returns leaves curBlockHeader.Height = h; from
\* then until the Commit of the block curBlockHeader.Height is
\* Store.Version() + 1; and when that Commit returns,
\* lastBlockHeader.Height and Store.Version() are both h.
C38_HeightsFollowStoreVersion ==
    [][/\ (resp'.op = "BeginBlock" /\ phase' = "begun" /\ status' = "running")
           => curBlockHeader'.Height = resp'.arg
       /\ (phase' \in {"begun", "ended"} /\ status' = "running")
           => curBlockHeader'.Height = Version(tree') + 1
       /\ (resp'.op = "Commit" /\ phase = "ended" /\ status' = "running")
           => /\ lastBlockHeader'.Height = curBlockHeader.Height
              /\ Version(tree') = curBlockHeader.Height]_vars

\* The Commit of the second block has returned.
C38_Witness ==
    /\ resp.op = "Commit"
    /\ status = "running"
    /\ phase = "idle"
    /\ lastBlockHeader.Height = 2
    /\ Version(tree) = 2

\* C39: the block notifications reach the event handler in increasing
\* order of height, whenever the emitters the Commits started get to run.
C39_EmissionsInHeightOrder ==
    \A i \in DOMAIN emit.blocks : \A j \in DOMAIN emit.blocks :
        i < j => emit.blocks[i] < emit.blocks[j]

\* C40: a ReplayApplication(blockNumber) whose transaction handler can be
\* built succeeds whenever GetSnapshotAt has a snapshot for some version in
\* 1..blockNumber-1, and then returns the greatest such version, whose
\* snapshot backs the store of the application it returns; it fails only
\* when blockNumber is 0 or no version in that range has a snapshot.
C40_ReplayStartsAtLatestSnapshot ==
    (resp.op = "ReplayApplication" /\ ~resp.arg.factoryFails) =>
        LET found == {v \in 1..(resp.arg.blockNumber - 1) :
                         resp.arg.snapshots[v] = "ok"}
        IN  /\ found # {} =>
                   /\ resp.err = <<>>
                   /\ resp.version \in found
                   /\ \A v \in found : v <= resp.version
                   /\ resp.arg.app.snapshot = [version |-> resp.version]
            /\ resp.err # <<>> =>
                   (resp.arg.blockNumber = 0 \/ found = {})

\* C14: the header and the snapshot ReadOnlyState returns belong together:
\* the header's height is the version the snapshot is pinned to, however the
\* call is interleaved with a Commit.
C14_HeaderMatchesSnapshot ==
    resp.op = "ReadOnlyState" => resp.arg = resp.version

C18_WritesVisibleAllAtOnce ==
    [][(checkCall.pc = "begun" /\ checkCall'.pc = "processed"
           /\ deliverCall.pc = "processed") =>
          LET r == ProcessTx(BeginTx, TxByHash(deliverCall.tx), FALSE)
              before == deliverCall.view
              after == IF r.err
                       THEN before
                       ELSE TxView(r.storeTx, [tree EXCEPT !.root = before])
          IN  checkCall'.view \in {before, after}]_vars

(***************************************************************************)
(* Properties of the store                                                 *)
(***************************************************************************)
SameVersion(t1, t2, v) == t1.versions[v] = t2.versions[v]

\* C7: whatever maxVersions was requested, the versions currentVersion and
\* currentVersion - 1 (when >= 1) exist after any sequence of SaveVersion
\* and Prune calls, and the retention window is at least 2.
C7_TwoMostRecentKept ==
    /\ maxVersions >= 2
    /\ tree.version >= 1 => VersionExists(tree, tree.version)
    /\ tree.version >= 2 => VersionExists(tree, tree.version - 1)

\* Prune has deleted a version and the two most recent ones are there.
C7_Witness ==
    /\ resp.op = "Prune" /\ resp.err = <<>>
    /\ tree.version = 3
    /\ ~VersionExists(tree, 1)
    /\ VersionExists(tree, 2) /\ VersionExists(tree, 3)

\* C8 (as stated): only Prune deletes a saved version, every version it
\* deletes has a number < currentVersion - maxVersions, and every other
\* saved version stays unchanged.
C8_DeletesStrictlyOlder ==
    [][\A v \in DOMAIN tree.versions :
          IF v \in DOMAIN tree'.versions
          THEN SameVersion(tree, tree', v)
          ELSE resp'.op = "Prune" /\ v < tree.version - maxVersions]_vars

\* C8 (amended): only Prune deletes a saved version, every version it
\* deletes has a number <= currentVersion - maxVersions, and every other
\* saved version stays unchanged.
C8_DeletesNotNewer ==
    [][\A v \in DOMAIN tree.versions :
          IF v \in DOMAIN tree'.versions
          THEN SameVersion(tree, tree', v)
          ELSE resp'.op = "Prune" /\ v <= tree.version - maxVersions]_vars

\* Prune has deleted version currentVersion - maxVersions.
C8_Witness ==
    /\ resp.op = "Prune" /\ resp.err = <<>>
    /\ tree.version = 3 /\ maxVersions = 2
    /\ DOMAIN tree.versions = {2, 3}
    /\ tree.versions[2] # tree.versions[3]

\* C16: what a snapshot pinned to a saved version V returns for any key is
\* the same before and after every Set, Delete, SaveVersion and Prune that
\* leaves V in the store.
C16_SnapshotReadsNeverChange ==
    [][\A V \in 1..tree.version :
          LET snapshot == [version |-> V]
          IN  (VersionExists(tree, V) /\ VersionExists(tree', V)) =>
                 \A key \in Keys :
                    SnapshotView(tree', snapshot)[key] =
                       SnapshotView(tree, snapshot)[key]]_vars

\* Version 1 is still readable after a second version with other contents
\* has been saved and the working set has been written again.
C16_Witness ==
    /\ resp.op = "Set"
    /\ tree.version = 2
    /\ VersionExists(tree, 1)
    /\ SnapshotView(tree, [version |-> 1]) # SnapshotView(tree, [version |-> 2])
    /\ tree.root # tree.versions[2]
    /\ tree.root # tree.versions[1]

\* The positions of the buffer that stage a write of key.
StagedAt(buffer, key) == {i \in 1..Len(buffer) : buffer[i].key = key}

Max(S) == CHOOSE i \in S : \A j \in S : j <= i

\* C17: after Rollback the parent store is identical, in its working set
\* and in every saved version, to what it was when the transaction was
\* opened, whatever writes were staged.
C17_RollbackRestoresParent ==
    [][(atomicTx.state = "open" /\ atomicTx'.state = "rolledback") =>
          tree' = atomicTx.opened]_vars

\* A transaction with two writes staged over a non-empty parent has been
\* rolled back.
C17_Witness ==
    /\ atomicTx.state = "rolledback"
    /\ resp.op = "Tx.Rollback" /\ resp.arg = 2
    /\ tree.root = [a |-> "x", b |-> "y"]

\* C19: in an open transaction a read of a key returns what the last write
\* staged for it wrote (the value of a Set, absent after a Delete), whatever
\* was staged before or after for other keys, and the parent store still
\* returns for every key what it held when the transaction was opened.
C19_ReadYourWrites ==
    atomicTx.state = "open" =>
       \A key \in Keys :
          /\ StagedAt(atomicTx.buffer, key) # {} =>
                LET last == atomicTx.buffer[Max(StagedAt(atomicTx.buffer, key))]
                IN  /\ TxGet(atomicTx, tree, key) = last.val
                    /\ TxHas(atomicTx, tree, key) = (last.action = "set")
          /\ StagedAt(atomicTx.buffer, key) = {} =>
                TxGet(atomicTx, tree, key) = Get(tree, key)
          /\ Get(tree, key) = Get(atomicTx.opened, key)

\* Over a parent holding a = "x" and b = "y", a has been deleted and b
\* overwritten in the open transaction.
C19_Witness ==
    /\ atomicTx.state = "open"
    /\ tree.root = [a |-> "x", b |-> "y"]
    /\ atomicTx.buffer = <<DeleteOp("a"), SetOp("b", "x")>>
    /\ TxGet(atomicTx, tree, "b") = "x"
    /\ ~TxHas(atomicTx, tree, "a")

\* The number of the latest version saved in the store, 0 when there is none.
LatestSaved(t) == IF DOMAIN t.versions = {} THEN 0 ELSE Max(DOMAIN t.versions)

\* C21: Info reports the number of the latest saved version and the digest
\* of its contents (no digest before the first save), whatever has been
\* written into the working set since; and a step that saves no version
\* changes neither Hash() nor Version().
C21_HashAndVersionOfLatestSaved ==
    [][/\ (resp' # resp /\ resp'.op = "Info") =>
             /\ resp'.version = LatestSaved(tree)
             /\ resp'.hash = IF LatestSaved(tree) = 0
                             THEN NilHash
                             ELSE HashOf(tree.versions[LatestSaved(tree)])
       /\ LatestSaved(tree') = LatestSaved(tree) =>
             /\ Hash(tree') = Hash(tree)
             /\ Version(tree') = Version(tree)]_vars

\* Info has been answered after version 1 was saved and a DeliverTx of
\* block 2 has committed writes into the store.
C21_Witness ==
    /\ resp.op = "Info"
    /\ resp.version = 1
    /\ resp.hash = HashOf(tree.versions[1])
    /\ phase = "begun" /\ delivered # <<>>
    /\ tree.root # tree.versions[1]

HasPrefix(key, prefix) ==
    /\ Len(prefix) <= Len(key)
    /\ SubSeq(key, 1, Len(prefix)) = prefix

\* The stored (key, value) pairs whose key starts with prefix, in ascending
\* key order.
StoredWithPrefix(t, prefix) ==
    LET keys == Ascending({k \in DOMAIN t.root :
                             t.root[k] # Absent /\ HasPrefix(k, prefix)})
    IN  [i \in 1..Len(keys) |-> RangeEntry(keys[i], t.root[keys[i]])]

\* C22: a Range the engine answers in full returns, without failing, the
\* stored (key, value) pairs whose key starts with the prefix, each once,
\* in ascending key order, and no other pair.
C22_RangeExactlyThePrefixed ==
    (resp.op = "Range" /\ resp.code = -1) =>
       /\ resp.err = <<>>
       /\ resp.view = StoredWithPrefix(tree, resp.arg.bytes)
       /\ \A i, j \in 1..Len(resp.view) :
             i < j => Compare(resp.view[i].Key, resp.view[j].Key) < 0

\* C23: a Range with a prefix of no bytes, nil or not, does not fail and
\* returns every stored pair.
C23_EmptyPrefixIsUnbounded ==
    (resp.op = "Range" /\ resp.code = -1 /\ Len(resp.arg.bytes) = 0) =>
       /\ resp.err = <<>>
       /\ {e.Key : e \in Elems(resp.view)} =
             {k \in DOMAIN tree.root : tree.root[k] # Absent}
       /\ \A e \in Elems(resp.view) : e.Value = tree.root[e.Key]

\* C24: for the non-empty prefix of a Range call, prefixRangeEnd returns
\* without failing: no bound when every byte is 0xFF, otherwise the prefix
\* cut after its last byte that is not 0xFF, with that byte incremented;
\* what it returns is above every byte string that starts with the prefix
\* and above no other string from the prefix on, and the Range returns.
C24_PrefixRangeEndIsUpperBound ==
    (resp.op = "Range" /\ Len(resp.arg.bytes) > 0) =>
       LET prefix == resp.arg.bytes
           r == prefixRangeEnd(resp.arg)
           notFF == {i \in 1..Len(prefix) : prefix[i] # 255}
       IN  /\ ~r.panic
           /\ r.end = IF notFF = {}
                      THEN NilSlice
                      ELSE Slice([i \in 1..Max(notFF) |->
                                     IF i = Max(notFF) THEN prefix[i] + 1
                                                       ELSE prefix[i]])
           /\ \A key \in ByteStrings(MaxPrefixLen + 1) :
                 HasPrefix(key, prefix) <=>
                    /\ Compare(prefix, key) <= 0
                    /\ r.end.nil \/ Compare(key, r.end.bytes) < 0
           /\ resp.err = <<>>

\* Range has been called with the prefix a 0xFF on a store that holds
\* a 0xFF and b: the bound is b and only a 0xFF is returned.
C24_Witness ==
    /\ resp.op = "Range" /\ resp.code = -1
    /\ resp.arg = Slice(<<97, 255>>)
    /\ prefixRangeEnd(resp.arg).end = Slice(<<98>>)
    /\ tree.root[<<98>>] # Absent
    /\ resp.view = <<RangeEntry(<<97, 255>>, RangeValue(<<97, 255>>))>>

\* C25: when the engine reports an error, Range does not fail and returns
\* no error: it logs it and returns the entries the engine delivered, the
\* first ones of the prefixed pairs in key order, and the store is as it
\* was.
C25_RangeErrorLoggedNotPropagated ==
    [][(resp'.op = "Range" /\ resp'.code # -1) =>
          LET all == StoredWithPrefix(tree, resp'.arg.bytes)
              n == IF resp'.code > Len(all) THEN Len(all) ELSE resp'.code
          IN  /\ resp'.err = <<>>
              /\ resp'.view = SubSeq(all, 1, n)
              /\ resp'.calls = <<Logged("range-error")>>
              /\ tree' = tree]_vars

\* The engine failed after one of the two keys with the prefix a b.
C25_Witness ==
    /\ resp.op = "Range" /\ resp.code = 1
    /\ resp.arg = Slice(<<97, 98>>)
    /\ resp.calls = <<Logged("range-error")>>
    /\ resp.view = <<RangeEntry(<<97, 98>>, RangeValue(<<97, 98>>))>>
    /\ tree.root[<<97, 98, 99>>] # Absent

\* C9: with oldVersion = currentVersion - maxVersions, Prune changes nothing
\* when oldVersion < 1 or that version does not exist (or the engine refuses
\* the deletion); otherwise it deletes exactly that version.  In every case
\* the other saved versions, the working set, Version() and Hash() stay as
\* they were.
C9_PruneExactlyOne ==
    [][resp'.op = "Prune" =>
          LET oldVersion == tree.version - maxVersions
              kept == IF oldVersion < 1 \/ resp'.err # <<>>
                      THEN DOMAIN tree.versions
                      ELSE DOMAIN tree.versions \ {oldVersion}
          IN  /\ DOMAIN tree'.versions = kept
              /\ \A v \in kept : SameVersion(tree, tree', v)
              /\ tree'.root = tree.root
              /\ Version(tree') = Version(tree)
              /\ Hash(tree') = Hash(tree)
              /\ resp'.err # <<>> => VersionExists(tree, oldVersion)]_vars

\* maxVersions = 2 at version 3: version 1 is gone, 2 and 3 are kept.
C9_Witness ==
    /\ resp.op = "Prune" /\ resp.err = <<>>
    /\ tree.version = 3 /\ maxVersions = 2
    /\ DOMAIN tree.versions = {2, 3}
    /\ tree.root # tree.versions[3]

\* C10: a successful SaveVersion increases Version() by exactly 1, returns
\* that new number and saves the working set under it, a number that was
\* never saved before; the saved versions are numbered 1..Version(), and
\* Version() never decreases.
C10_VersionAdvancesByOne ==
    [][/\ Version(tree') >= Version(tree)
       /\ DOMAIN tree'.versions \subseteq 1..Version(tree')
       /\ (resp'.op = "SaveVersion" /\ resp'.err = <<>>) =>
              /\ Version(tree') = Version(tree) + 1
              /\ resp'.version = Version(tree')
              /\ ~VersionExists(tree, Version(tree'))
              /\ tree'.versions[Version(tree')] = tree.root
       /\ resp'.op # "SaveVersion" => Version(tree') = Version(tree)]_vars

\* The third SaveVersion in a row has returned version 3.
C10_Witness ==
    /\ resp.op = "SaveVersion" /\ resp.err = <<>>
    /\ resp.version = 3 /\ tree.version = 3
    /\ DOMAIN tree.versions = {1, 2, 3}

=============================================================================
